---------------------------- MODULE Spec2Model ----------------------------
(***************************************************************************)
(* A model of nms/core/database.py (src/database.py): the SafeSession      *)
(* unit of work, the schema evolution of CollectedDataOperator             *)
(* (create_tables, alter_table), its upsert writer (save_data) and its     *)
(* readers (get_times_values, get_last_data, get_time_interval), the size  *)
(* cache of DatabaseOperator (get_size), SessionManager,                   *)
(* SystemDataOperator, two threads calling save_data or get_size on one    *)
(* operator, and the statistics AlertDataOperator keeps.                   *)
(*                                                                         *)
(* The store is a map from table name to a table; a table has a primary    *)
(* key, a set of columns and a set of rows; a row maps every column to a   *)
(* cell.  The operator's MetaData is a second map, from table name to the  *)
(* columns the operator has reflected or declared.                         *)
(***************************************************************************)
EXTENDS Integers, Sequences, FiniteSets, TLC

VARIABLES
    db,         \* the backing store: table name -> [pk, cols, rows]
    metadata,   \* self.metadata.tables: table name -> [pk, cols]
    ret,        \* the last call of the caller and what it got back
    writes,     \* number of calls made so far that write
    inp,        \* arguments of a get_data_to_save call (SpecData)
    out,        \* what that call returned (SpecData)
    cache,      \* self.last_get_size_time and self.cached_db_size
    typed,      \* the (table, column) pairs self.metadata holds as declared
                \* with a Boolean or Text type rather than as reflected
    clock,      \* time.time(), in seconds
    general_devices,  \* the caller's general devices: name -> is_online
    server,     \* the names of the databases that exist
    managers,   \* the SessionManager objects the caller holds
    callers,    \* the threads that call one operator at the same time:
                \* where each is in its call, and its local variables
    alert_statistics,  \* the dict the alert handler passes to the
                \* AlertDataOperator: key -> [counter, list]
    alerts      \* the Alert objects, and the Alerts and OldAlerts tables

vars == <<db, metadata, ret, writes, inp, out, cache, typed, clock,
          general_devices, server, managers, callers, alert_statistics,
          alerts>>

\* What lies outside the operator and its store.
env == <<clock, general_devices, server, managers, callers,
         alert_statistics, alerts>>

---------------------------------------------------------------------------
(* Bounds of the model. *)

\* Timestamps are 0..MaxTime.
MaxTime == 1
\* Parameter values are 0..MaxValue.
MaxValue == 1
\* Number of calls of __init__, create_tables and save_data the caller makes
\* (the readers are not counted).
MaxWrites == 3
\* The clock runs for MaxClock refresh intervals of get_size.
MaxClock == 2

Times == 0 .. MaxTime
Values == 0 .. MaxValue

\* The device and parameter names of the deployment.  "online" is the name
\* the writer treats specially; the others are the names the tests use.
Devices == {"Dev01", "Dev02"}
Params == {"CpuTemp1", "online"}

\* The parameters each device can be configured to report.
Reportable == [d \in Devices |->
                 IF d = "Dev01" THEN {"CpuTemp1", "online"} ELSE {"CpuTemp1"}]

---------------------------------------------------------------------------
(* Values.  Python values and database cells are tagged pairs, so that a   *)
(* conversion between them is visible.                                     *)

PyNone == <<"None", 0>>
PyInt(n) == <<"int", n>>
PyFloat(n) == <<"float", n>>
PyDecimal(n) == <<"Decimal", n>>
PyBool(b) == <<"bool", b>>
PyStr(s) == <<"str", s>>

DbNull == <<"NULL", 0>>
DbInteger(n) == <<"Integer", n>>
DbNumeric(n) == <<"Numeric", n>>
DbText(s) == <<"Text", s>>

\* No exception.
NoExc == "None"

\* cfg.DB_TYPES[parameter._type]: the column type of a parameter's values.
DB_TYPES == [p \in Params |-> IF p = "online" THEN "Integer" ELSE "Numeric"]

\* The value a collector holds for parameter p when it measured n.
PyValue(p, n) == IF DB_TYPES[p] = "Numeric" THEN PyFloat(n) ELSE PyInt(n)

\* What the driver stores in a column of type type_ for a bound value.
ToCell(type_, v) ==
    IF v = PyNone THEN DbNull
    ELSE IF type_ = "Numeric" THEN DbNumeric(v[2])
    ELSE IF type_ = "Text" THEN DbText(v[2])
    ELSE DbInteger(v[2])

\* What the driver hands back for a cell: NUMERIC columns come back as
\* decimal.Decimal, integer columns as int, text as str, NULL as None.
FromCell(c) ==
    IF c = DbNull THEN PyNone
    ELSE IF c[1] = "Numeric" THEN PyDecimal(c[2])
    ELSE IF c[1] = "Text" THEN PyStr(c[2])
    ELSE PyInt(c[2])

\* Python truthiness of None and of a number.
Truthy(v) == v # PyNone /\ v[2] # 0

EmptyMap == [x \in {} |-> 0]

\* All orders in which a dict with key set S can be iterated.
Orders(S) ==
    {s \in [1 .. Cardinality(S) -> S] :
        \A i, j \in 1 .. Cardinality(S) : i # j => s[i] # s[j]}

---------------------------------------------------------------------------
(* SafeSession: the unit of work of every operation.                       *)

CommitOutcomes == {"ok", "InvalidRequestError", "OperationalError"}

\* An __exit__ that rolls back when the body raised and commits only
\* when it did not.
SafeSession_exit_rollback(bodyExc, co) ==
    IF bodyExc # NoExc \/ co = "InvalidRequestError"
    THEN [entered |-> TRUE, committed |-> FALSE, rolledback |-> TRUE,
          closed |-> TRUE, exc |-> bodyExc]
    ELSE IF co = "ok"
    THEN [entered |-> TRUE, committed |-> TRUE, rolledback |-> FALSE,
          closed |-> TRUE, exc |-> NoExc]
    ELSE [entered |-> TRUE, committed |-> FALSE, rolledback |-> FALSE,
          closed |-> FALSE, exc |-> co]

\* SafeSession.__exit__(type, value, traceback) when the with body ended
\* with exception bodyExc (NoExc: normally) and self.commit() ends with co.
\* The exception type is never looked at: commit() is called on every exit.
SafeSession_exit(bodyExc, co) ==
    IF co = "ok"
    THEN [entered |-> TRUE, committed |-> TRUE, rolledback |-> FALSE,
          closed |-> TRUE, exc |-> bodyExc]
    ELSE IF co = "InvalidRequestError"
    THEN \* except sqlexc.InvalidRequestError: log, rollback; then close
         [entered |-> TRUE, committed |-> FALSE, rolledback |-> TRUE,
          closed |-> TRUE, exc |-> bodyExc]
    ELSE \* any other error leaves __exit__ before rollback() and close()
         [entered |-> TRUE, committed |-> FALSE, rolledback |-> FALSE,
          closed |-> FALSE, exc |-> co]

\* No session was opened.
NoSession == [entered |-> FALSE, committed |-> FALSE, rolledback |-> FALSE,
              closed |-> FALSE, exc |-> NoExc]

---------------------------------------------------------------------------
(* SessionManager: the databases of the server and the way to them.        *)

\* SessionManager.get_url(db_name)
get_url(db_name) == <<"DB_PREFIX_NAME", db_name, "charset=utf8">>

\* A constructor that does not look whether the database exists.
SessionManager_lazy(srv, db_name) ==
    [exc |-> NoExc,
     manager |-> {[name |-> db_name, database_url |-> get_url(db_name),
                   engine |-> get_url(db_name),
                   sessionmaker |-> "SafeSession"]}]

\* SessionManager(db_name) on a server with the databases srv: the
\* object it yields, if any.
SessionManager_init(srv, db_name) ==
    IF get_url(db_name) \notin {get_url(n) : n \in srv}
    THEN [exc |-> "ConnectionError", manager |-> {}]
    ELSE [exc |-> NoExc,
          manager |-> {[name |-> db_name, database_url |-> get_url(db_name),
                        engine |-> get_url(db_name),
                        sessionmaker |-> "SafeSession"]}]

\* sqlfunctions.create_database(url): the server refuses to create a
\* database that exists.
create_database(srv, db_name) ==
    IF db_name \in srv
    THEN [server |-> srv, exc |-> "ProgrammingError"]
    ELSE [server |-> srv \cup {db_name}, exc |-> NoExc]

\* A create_db that lets the error through.
create_db_strict(srv, db_name) == create_database(srv, db_name)

\* SessionManager.create_db(db_name)
create_db(srv, db_name) ==
    [create_database(srv, db_name) EXCEPT
        !.exc = IF @ = "ProgrammingError" THEN NoExc ELSE @]

\* sqlfunctions.drop_database(url), as SessionManager.drop_database and
\* SessionManager.delete call it: the server refuses to drop a database
\* that does not exist.
drop_database(srv, db_name) ==
    IF db_name \in srv
    THEN [server |-> srv \ {db_name}, exc |-> NoExc]
    ELSE [server |-> srv, exc |-> "InternalError"]

---------------------------------------------------------------------------
(* DatabaseOperator: reflection, insert-or-update, alter_table.            *)

\* A lookup that answers a missing table with an empty Table object.
Table_autoload_empty(dbv, md, table_name) ==
    IF table_name \in DOMAIN md
    THEN [md |-> md, exc |-> NoExc]
    ELSE [md |-> [t \in DOMAIN md \cup {table_name} |->
                    IF t # table_name THEN md[t]
                    ELSE IF t \in DOMAIN dbv
                    THEN [pk |-> dbv[t].pk, cols |-> dbv[t].cols]
                    ELSE [pk |-> {}, cols |-> {}]],
          exc |-> NoExc]

\* Table(table_name, self.metadata, autoload=True): the table the registry
\* already holds, else the table reflected from the store, else
\* NoSuchTableError.
Table_autoload(dbv, md, table_name) ==
    IF table_name \in DOMAIN md
    THEN [md |-> md, exc |-> NoExc]
    ELSE IF table_name \in DOMAIN dbv
    THEN [md |-> [t \in DOMAIN md \cup {table_name} |->
                    IF t = table_name
                    THEN [pk |-> dbv[t].pk, cols |-> dbv[t].cols]
                    ELSE md[t]],
          exc |-> NoExc]
    ELSE [md |-> md, exc |-> "NoSuchTableError"]

\* The row an INSERT builds: the bound values of the columns the statement
\* names, NULL elsewhere.  table.insert() executed with a parameter dict
\* names the columns of the Table object (known) that are keys of the dict;
\* a key that names no such column is not part of the compiled statement.
NewRow(table, known, type_, column_values_dict) ==
    [c \in table.cols |->
        IF c \in DOMAIN column_values_dict /\ c \in known
        THEN ToCell(IF c = "time" THEN "Integer" ELSE type_,
                    column_values_dict[c])
        ELSE DbNull]

\* The store refuses an INSERT whose primary key is already there.
IntegrityError(table, row) ==
    /\ table.pk # {}
    /\ \E r \in table.rows : \A k \in table.pk : r[k] = row[k]

\* An UPDATE whose WHERE clause matches no row.
UpdateNoRow(table, type_, column_values_dict) == table.rows

\* An UPDATE that rewrites the whole row, as REPLACE INTO would: the
\* columns the dict does not name become NULL.
UpdateReplace(table, type_, column_values_dict) ==
    {IF r["time"] = ToCell("Integer", column_values_dict["time"])
     THEN [c \in table.cols |->
             IF c \in DOMAIN column_values_dict
             THEN ToCell(IF c = "time" THEN "Integer" ELSE type_,
                         column_values_dict[c])
             ELSE DbNull]
     ELSE r : r \in table.rows}

\* UPDATE table SET <column_values_dict> WHERE time = :time
UpdateRows(table, type_, column_values_dict) ==
    {IF r["time"] = ToCell("Integer", column_values_dict["time"])
     THEN [c \in table.cols |->
             IF c \in DOMAIN column_values_dict
             THEN ToCell(IF c = "time" THEN "Integer" ELSE type_,
                         column_values_dict[c])
             ELSE r[c]]
     ELSE r : r \in table.rows}

\* _insert_in_session once the INSERT has built row: the insert, or on
\* IntegrityError the update, which refuses a key that names no column of
\* the table; path tells which statement took effect.
insert_or_update(tx, md, table_name, column_values_dict, row) ==
    IF ~IntegrityError(tx[table_name], row)
    THEN [tx |-> [tx EXCEPT ![table_name].rows = @ \cup {row}],
          md |-> md, exc |-> NoExc, path |-> "insert"]
    ELSE \* except sqlexc.IntegrityError: update().values(**dict)
         IF ~(DOMAIN column_values_dict \subseteq md[table_name].cols)
         THEN [tx |-> tx, md |-> md, exc |-> "CompileError", path |-> "none"]
         ELSE [tx |-> [tx EXCEPT ![table_name].rows =
                         UpdateRows(tx[table_name], DB_TYPES[table_name],
                                    column_values_dict)],
               md |-> md, exc |-> NoExc, path |-> "update"]

\* _insert_in_session once Table(...) has given t; the store refuses a
\* statement on a table that is declared in the registry but not created.
insert_in_table(tx, table_name, column_values_dict, t) ==
    IF t.exc # NoExc
    THEN [tx |-> tx, md |-> t.md, exc |-> t.exc, path |-> "none"]
    ELSE IF table_name \notin DOMAIN tx
    THEN [tx |-> tx, md |-> t.md, exc |-> "ProgrammingError",
          path |-> "none"]
    ELSE insert_or_update(tx, t.md, table_name, column_values_dict,
                          NewRow(tx[table_name], t.md[table_name].cols,
                                 DB_TYPES[table_name], column_values_dict))

\* _insert_in_session(table_name, column_values_dict, session) on the
\* session's view tx of the store.
_insert_in_session(tx, md, table_name, column_values_dict) ==
    insert_in_table(tx, table_name, column_values_dict,
                    Table_autoload(tx, md, table_name))

\* self.size_update_time, in seconds.
size_update_time == 60 * 60 * 3

\* What the aggregate query of get_size finds for the database: the
\* summed data and index length of its tables, which grows with every
\* table and row; no row at all (None) for a database without tables.
db_size_mb(dbv) ==
    IF DOMAIN dbv = {} THEN PyNone
    ELSE PyDecimal(Cardinality(
             UNION {{<<t>>} \cup {<<t, r>> : r \in dbv[t].rows} :
                    t \in DOMAIN dbv}))

\* A cache that is never trusted.
size_always_stale(now, c) == TRUE

\* time.time() > self.last_get_size_time + self.size_update_time
size_is_stale(now, c) == now > c.last_get_size_time + size_update_time

\* get_size after its with block has read size and __exit__ has given
\* exit: the cache is filled at time now unless an exception left the
\* block.
get_size_refresh(c, size, exit, now) ==
    IF exit.exc # NoExc
    THEN [exc |-> exit.exc, session |-> exit, cache |-> c,
          value |-> [queried |-> TRUE, result |-> PyNone]]
    ELSE [exc |-> NoExc, session |-> exit,
          cache |-> [last_get_size_time |-> now, cached_db_size |-> size],
          value |-> [queried |-> TRUE, result |-> size]]

\* get_size() called at time now, the query taking elapsed seconds and
\* the commit ending with co; responce.first()[1] raises TypeError when
\* the query finds no row.
get_size(dbv, c, now, co, elapsed) ==
    IF size_is_stale(now, c)
    THEN get_size_refresh(c, db_size_mb(dbv),
                          SafeSession_exit(IF db_size_mb(dbv) = PyNone
                                           THEN "TypeError" ELSE NoExc, co),
                          now + elapsed)
    ELSE [exc |-> NoExc, session |-> NoSession, cache |-> c,
          value |-> [queried |-> FALSE, result |-> c.cached_db_size]]

\* The column added by emptying the table.
_add_column_truncate(dbv, table_name, column) ==
    [dbv EXCEPT ![table_name] =
        [pk |-> @.pk, cols |-> @.cols \cup {column}, rows |-> {}]]

\* The column added by rebuilding the table with the time column and
\* the new column only.
_add_column_rebuild(dbv, table_name, column) ==
    [dbv EXCEPT ![table_name] =
        [pk |-> @.pk,
         cols |-> {"time", column},
         rows |-> {[c \in {"time", column} |->
                      IF c \in DOMAIN r THEN r[c] ELSE DbNull] :
                   r \in @.rows}]]

\* ALTER TABLE table_name ADD COLUMN column: every row gets NULL there.
_add_column(dbv, table_name, column) ==
    [dbv EXCEPT ![table_name] =
        [pk |-> @.pk,
         cols |-> @.cols \cup {column},
         rows |-> {[c \in DOMAIN r \cup {column} |->
                      IF c \in DOMAIN r THEN r[c] ELSE DbNull] :
                   r \in @.rows}]]

\* The for loop of alter_table over column_names[i..], with the column
\* names (existing) read from the Table object before the loop; added
\* lists the columns an ALTER TABLE was issued for.
RECURSIVE alter_loop(_, _, _, _, _, _)
alter_loop(dbv, existing, table_name, column_names, i, added) ==
    IF i > Len(column_names)
    THEN [db |-> dbv, exc |-> NoExc, added |-> added]
    ELSE IF column_names[i] \in existing
    THEN alter_loop(dbv, existing, table_name, column_names, i + 1, added)
    ELSE IF table_name \notin DOMAIN dbv
    THEN \* the table is declared in the registry but not created
         [db |-> dbv, exc |-> "ProgrammingError", added |-> added]
    ELSE IF column_names[i] \in dbv[table_name].cols
    THEN \* the store refuses to add a column it already has
         [db |-> dbv, exc |-> "OperationalError", added |-> added]
    ELSE alter_loop(_add_column(dbv, table_name, column_names[i]),
                    existing, table_name, column_names, i + 1,
                    added \cup {column_names[i]})

\* alter_table once Table(...) has given t: a table that does not exist
\* is left alone.
alter_columns(dbv, md, table_name, column_names, t) ==
    IF t.exc = "NoSuchTableError"
    THEN [db |-> dbv, md |-> md, exc |-> NoExc, added |-> {}]
    ELSE ("md" :> t.md) @@
         alter_loop(dbv, t.md[table_name].cols, table_name, column_names,
                    1, {})

\* An alter_table that adds nothing.
alter_table_skip(dbv, md, table_name, column_names) ==
    [db |-> dbv, md |-> md, exc |-> NoExc, added |-> {}]

\* alter_table(table_name, column_names, type_): add the columns the
\* table lacks.
alter_table(dbv, md, table_name, column_names) ==
    alter_columns(dbv, md, table_name, column_names,
                  Table_autoload(dbv, md, table_name))

\* alter_table called by the user of the operator: it returns nothing.
alter_table_call(a) ==
    [db |-> a.db, md |-> a.md, exc |-> a.exc, session |-> NoSession,
     value |-> [added |-> a.added]]

---------------------------------------------------------------------------
(* CollectedDataOperator: schema evolution.                                *)

\* The elements of the sequence s as a set.
Range(s) == {s[i] : i \in DOMAIN s}

\* list_of_devices of create_tables: the names of the devices[i..] that
\* have parameter in their params_dict, in the order of devices.
RECURSIVE SelectNames(_, _, _)
SelectNames(devices, parameter, i) ==
    IF i > Len(devices) THEN <<>>
    ELSE (IF parameter \in DOMAIN devices[i].params_dict
          THEN <<devices[i].name>> ELSE <<>>)
         \o SelectNames(devices, parameter, i + 1)

\* Column('time', Integer) without primary_key=True.
NoPrimaryKey == {}

\* Column('time', Integer, primary_key=True)
PrimaryKey == {"time"}

\* A __create_table that declares nothing.
declare_nothing(parameter, columns, a) == a

\* __create_table after alter_table has given a: declare the table in
\* the registry with a time primary key and the columns (extend_existing
\* keeps the columns already declared).
declare_table(parameter, columns, a) ==
    IF a.exc # NoExc
    THEN a
    ELSE [db |-> a.db,
          md |-> [t \in DOMAIN a.md \cup {parameter} |->
                    IF t # parameter THEN a.md[t]
                    ELSE IF t \in DOMAIN a.md
                    THEN [pk |-> a.md[t].pk \cup PrimaryKey,
                          cols |-> a.md[t].cols \cup columns]
                    ELSE [pk |-> PrimaryKey, cols |-> columns]],
          exc |-> NoExc,
          added |-> a.added]

\* __create_table(parameter, list_of_devices): alter the table if it is
\* there, then declare it with a time column and a column per device.
__create_table(dbv, md, parameter, list_of_devices) ==
    declare_table(parameter, {"time"} \cup Range(list_of_devices),
                  alter_table(dbv, md, parameter, list_of_devices))

\* create_tables after __create_table has given c for parameter: altered
\* lists the (table, column) pairs added to existing tables so far.
create_step(altered, parameter, c) ==
    [db |-> c.db, md |-> c.md, exc |-> c.exc,
     altered |-> altered \cup {<<parameter, d>> : d \in c.added}]

\* The loop of create_tables over all_parameters, in the order params,
\* from the state l of store and registry.
RECURSIVE create_loop(_, _, _, _)
create_loop(l, devices, params, i) ==
    IF i > Len(params) \/ l.exc # NoExc
    THEN l
    ELSE create_loop(
             create_step(l.altered, params[i],
                         __create_table(l.db, l.md, params[i],
                                        SelectNames(devices, params[i], 1))),
             devices, params, i + 1)

\* A create_all that drops and creates every declared table
\* (checkfirst=False after a drop_all).
create_all_replace(dbv, md) ==
    [t \in DOMAIN dbv \cup DOMAIN md |->
        IF t \in DOMAIN md
        THEN [pk |-> md[t].pk, cols |-> md[t].cols, rows |-> {}]
        ELSE dbv[t]]

\* self.metadata.create_all(self.engine, checkfirst=True): create every
\* declared table the store lacks.
create_all(dbv, md) ==
    [t \in DOMAIN dbv \cup DOMAIN md |->
        IF t \in DOMAIN dbv THEN dbv[t]
        ELSE [pk |-> md[t].pk, cols |-> md[t].cols, rows |-> {}]]

\* self.metadata.reflect(): load every table of the store the registry
\* does not hold yet.
reflect(dbv, md) ==
    [t \in DOMAIN dbv \cup DOMAIN md |->
        IF t \in DOMAIN md THEN md[t]
        ELSE [pk |-> dbv[t].pk, cols |-> dbv[t].cols]]

\* create_tables after create_all has made the store created of l.
create_tables_reflect(l, created) ==
    [db |-> created, md |-> reflect(created, l.md), exc |-> NoExc,
     session |-> NoSession,
     value |-> [altered |-> l.altered,
                created |-> DOMAIN created \ DOMAIN l.db]]

\* create_tables after its loop has ended in l: create_all and reflect,
\* unless the loop raised.
create_tables_end(l) ==
    IF l.exc # NoExc
    THEN [db |-> l.db, md |-> l.md, exc |-> l.exc, session |-> NoSession,
          value |-> [altered |-> l.altered, created |-> {}]]
    ELSE create_tables_reflect(l, create_all(l.db, l.md))

\* create_tables(devices): devices in the order devices.values() yields
\* them, all_parameters in the order params; created lists the tables
\* create_all made.
create_tables(dbv, md, devices, params) ==
    create_tables_end(
        create_loop([db |-> dbv, md |-> md, exc |-> NoExc, altered |-> {}],
                    devices, params, 1))

---------------------------------------------------------------------------
(* CollectedDataOperator: the writer.                                      *)

\* The inner loop of get_data_to_save without the exemption of 'online'.
SaveDevice_no_online(data_to_save, cur_time, device, do_time_check) ==
    LET kept == {p \in DOMAIN device.params_dict :
                    ~(/\ do_time_check
                      /\ device.params_dict[p].last_collected # cur_time)}
    IN  [p \in DOMAIN data_to_save \cup kept |->
            IF p \in kept
            THEN (device.name :> device.params_dict[p].value) @@
                 (IF p \in DOMAIN data_to_save
                  THEN data_to_save[p]
                  ELSE ("time" :> PyInt(cur_time)))
            ELSE data_to_save[p]]

\* The inner loop of get_data_to_save skipping every reading whose value
\* is false in a condition (None, 0, 0.0).
SaveDevice_truthy(data_to_save, cur_time, device, do_time_check) ==
    LET kept == {p \in DOMAIN device.params_dict :
                    /\ Truthy(device.params_dict[p].value)
                    /\ ~(/\ do_time_check
                         /\ device.params_dict[p].last_collected # cur_time
                         /\ p # "online")}
    IN  [p \in DOMAIN data_to_save \cup kept |->
            IF p \in kept
            THEN (device.name :> device.params_dict[p].value) @@
                 (IF p \in DOMAIN data_to_save
                  THEN data_to_save[p]
                  ELSE ("time" :> PyInt(cur_time)))
            ELSE data_to_save[p]]

\* The inner loop of get_data_to_save for one device: the readings that
\* pass the time check go into the record of their parameter, which is
\* created with its time entry when the parameter is first seen.
SaveDevice(data_to_save, cur_time, device, do_time_check) ==
    LET kept == {p \in DOMAIN device.params_dict :
                    ~(/\ do_time_check
                      /\ device.params_dict[p].last_collected # cur_time
                      /\ p # "online")}
    IN  [p \in DOMAIN data_to_save \cup kept |->
            IF p \in kept
            THEN (device.name :> device.params_dict[p].value) @@
                 (IF p \in DOMAIN data_to_save
                  THEN data_to_save[p]
                  ELSE ("time" :> PyInt(cur_time)))
            ELSE data_to_save[p]]

RECURSIVE data_loop(_, _, _, _, _)
data_loop(data_to_save, cur_time, given_devices, do_time_check, i) ==
    IF i > Len(given_devices) THEN data_to_save
    ELSE data_loop(SaveDevice(data_to_save, cur_time, given_devices[i],
                              do_time_check),
                   cur_time, given_devices, do_time_check, i + 1)

\* get_data_to_save(cur_time, given_devices, do_time_check)
get_data_to_save(cur_time, given_devices, do_time_check) ==
    data_loop(EmptyMap, cur_time, given_devices, do_time_check, 1)

\* save_data after _insert_in_session has given r for parameter:
\* executed lists the parameters whose statement has run, updated those
\* among them that took the update path.
insert_step(executed, updated, parameter, r) ==
    [tx |-> r.tx, md |-> r.md, exc |-> r.exc,
     executed |-> IF r.exc = NoExc THEN Append(executed, parameter)
                  ELSE executed,
     updated |-> IF r.path = "update" THEN updated \cup {parameter}
                 ELSE updated]

\* The for loop of save_data over data_to_save, in the order order[i..],
\* from the state l of the session's view and the registry; it ends with
\* the first statement that raises.
RECURSIVE insert_loop(_, _, _, _)
insert_loop(l, data_to_save, order, i) ==
    IF i > Len(order) \/ l.exc # NoExc
    THEN l
    ELSE insert_loop(
             insert_step(l.executed, l.updated, order[i],
                         _insert_in_session(l.tx, l.md, order[i],
                                            data_to_save[order[i]])),
             data_to_save, order, i + 1)

\* save_data: the with body, the for loop over data_to_save iterated in
\* the order order, on the store as the session sees it.
save_data_body(dbv, md, data_to_save, order) ==
    insert_loop([tx |-> dbv, md |-> md, exc |-> NoExc, executed |-> <<>>,
                 updated |-> {}],
                data_to_save, order, 1)

\* save_data after __exit__ has given exit: the store takes the session's
\* view when the commit went through.
save_data_exit(dbv, body, exit) ==
    [db |-> IF exit.committed THEN body.tx ELSE dbv,
     md |-> body.md,
     exc |-> exit.exc,
     session |-> exit,
     value |-> [executed |-> body.executed, updated |-> body.updated]]

\* save_data: leaving the with block after body, the commit ending with co.
save_data(dbv, body, co) ==
    save_data_exit(dbv, body, SafeSession_exit(body.exc, co))

---------------------------------------------------------------------------
(* CollectedDataOperator: the readers.                                     *)

\* ORDER BY time ASC: the rows as a sequence, smallest time first.
RECURSIVE order_by_asc(_)
order_by_asc(rows) ==
    IF rows = {} THEN <<>>
    ELSE LET first == CHOOSE r \in rows :
                         \A q \in rows : r["time"][2] <= q["time"][2]
         IN  <<first>> \o order_by_asc(rows \ {first})

\* ORDER BY time DESC: the rows as a sequence, largest time first.
RECURSIVE order_by_desc(_)
order_by_desc(rows) ==
    IF rows = {} THEN <<>>
    ELSE LET first == CHOOSE r \in rows :
                         \A q \in rows : q["time"][2] <= r["time"][2]
         IN  <<first>> \o order_by_desc(rows \ {first})

\* The WHERE clause get_query_according_to_times adds: the bounds are
\* tested for truth, not for None.
TimeFilter(t, begin_time, end_time) ==
    IF Truthy(begin_time) /\ Truthy(end_time)
    THEN begin_time[2] <= t /\ t <= end_time[2]
    ELSE IF Truthy(begin_time) THEN t >= begin_time[2]
    ELSE IF Truthy(end_time) THEN t <= end_time[2]
    ELSE TRUE

\* get_query_according_to_times(table, device_name, begin_time, end_time),
\* executed: the selected rows, time descending.
get_query_according_to_times(table, device_name, begin_time, end_time) ==
    order_by_desc({r \in table.rows :
                     TimeFilter(r["time"][2], begin_time, end_time)})

\* for _time, value in res: Decimal values become float.
RECURSIVE times_values(_, _, _)
times_values(res, device_name, i) ==
    IF i > Len(res) THEN <<>>
    ELSE LET value == FromCell(res[i][device_name])
         IN  << <<FromCell(res[i]["time"])[2],
                  IF value[1] = "Decimal" THEN PyFloat(value[2]) ELSE value>> >>
             \o times_values(res, device_name, i + 1)

\* A reader after Table(...) has given t: KeyError when table.columns has
\* no device_name.
column_of(device_name, parameter_name, t) ==
    IF t.exc = NoExc /\ device_name \notin t.md[parameter_name].cols
    THEN [md |-> t.md, exc |-> "KeyError"]
    ELSE t

\* The table and the column a reader selects from: NoSuchTableError when
\* the table cannot be resolved, KeyError when it has no such column.
\* Both are raised before a session is opened.
ResolveColumn(dbv, md, device_name, parameter_name) ==
    column_of(device_name, parameter_name,
              Table_autoload(dbv, md, parameter_name))

\* get_times_values after the table has been resolved as t: the query and
\* the with body.
select_times_values(dbv, device_name, parameter_name, begin_time, end_time, t) ==
    IF t.exc # NoExc
    THEN [md |-> t.md, exc |-> t.exc, value |-> <<>>, entered |-> FALSE]
    ELSE IF parameter_name \notin DOMAIN dbv
    THEN \* the query names a table that is declared but not created
         [md |-> t.md, exc |-> "ProgrammingError", value |-> <<>>,
          entered |-> TRUE]
    ELSE [md |-> t.md, exc |-> NoExc,
          value |-> times_values(
                        get_query_according_to_times(
                            dbv[parameter_name], device_name,
                            begin_time, end_time),
                        device_name, 1),
          entered |-> TRUE]

\* get_times_values(device_name, parameter_name, begin_time, end_time) up
\* to the end of its with body.
get_times_values_body(dbv, md, device_name, parameter_name, begin_time, end_time) ==
    select_times_values(dbv, device_name, parameter_name, begin_time,
                        end_time,
                        ResolveColumn(dbv, md, device_name, parameter_name))

\* The last limit elements of the sequence s.
Limit_oldest(s, limit) ==
    SubSeq(s, IF limit < Len(s) THEN Len(s) - limit + 1 ELSE 1, Len(s))

\* The first limit elements of the sequence s (LIMIT limit).
Limit(s, limit) == SubSeq(s, 1, IF limit < Len(s) THEN limit ELSE Len(s))

\* get_last_data after the table has been resolved as t: the query and
\* the with body.
select_last_data(dbv, device_name, parameter_name, limit, t) ==
    IF t.exc # NoExc
    THEN [md |-> t.md, exc |-> t.exc, value |-> <<>>, entered |-> FALSE]
    ELSE IF parameter_name \notin DOMAIN dbv
    THEN \* the query names a table that is declared but not created
         [md |-> t.md, exc |-> "ProgrammingError", value |-> <<>>,
          entered |-> TRUE]
    ELSE [md |-> t.md, exc |-> NoExc,
          value |-> times_values(
                        Limit(order_by_desc(dbv[parameter_name].rows),
                              limit),
                        device_name, 1),
          entered |-> TRUE]

\* get_last_data(device_name, parameter_name, limit) up to the end of its
\* with body.
get_last_data_body(dbv, md, device_name, parameter_name, limit) ==
    select_last_data(dbv, device_name, parameter_name, limit,
                     ResolveColumn(dbv, md, device_name, parameter_name))

\* The time of every row, largest first.
RECURSIVE select_time_desc(_)
select_time_desc(rows) ==
    IF rows = {} THEN <<>>
    ELSE LET first == CHOOSE r \in rows :
                         \A q \in rows : q["time"][2] <= r["time"][2]
         IN  <<FromCell(first["time"])[2]>>
             \o select_time_desc(rows \ {first})

\* select([table.columns.time]).order_by(asc(table.columns.time)): the
\* time of every row, smallest first.
RECURSIVE select_time_asc(_)
select_time_asc(rows) ==
    IF rows = {} THEN <<>>
    ELSE LET first == CHOOSE r \in rows :
                         \A q \in rows : r["time"][2] <= q["time"][2]
         IN  <<FromCell(first["time"])[2]>>
             \o select_time_asc(rows \ {first})

\* get_time_interval after Table(...) has given t: the with body, which
\* collects row_list.
select_time_interval(dbv, table_name, t) ==
    IF t.exc # NoExc
    THEN [md |-> t.md, exc |-> t.exc, value |-> <<>>, entered |-> FALSE]
    ELSE IF table_name \notin DOMAIN dbv
    THEN \* the query names a table that is declared but not created
         [md |-> t.md, exc |-> "ProgrammingError", value |-> <<>>,
          entered |-> TRUE]
    ELSE [md |-> t.md, exc |-> NoExc,
          value |-> select_time_asc(dbv[table_name].rows),
          entered |-> TRUE]

\* get_time_interval(table_name) up to the end of its with body.
get_time_interval_body(dbv, md, table_name) ==
    select_time_interval(dbv, table_name,
                         Table_autoload(dbv, md, table_name))

\* A reader after __exit__ has given exit: it returns times_values unless
\* an exception leaves the with block.
read_exit(dbv, body, exit) ==
    [db |-> dbv, md |-> body.md, exc |-> exit.exc, session |-> exit,
     value |-> [result |-> IF exit.exc = NoExc THEN body.value ELSE <<>>]]

\* A reader leaving its with block, the commit ending with co; a reader
\* that raised before the with block opened no session.
ReadReturn(dbv, body, co) ==
    IF ~body.entered
    THEN [db |-> dbv, md |-> body.md, exc |-> body.exc,
          session |-> NoSession, value |-> [result |-> <<>>]]
    ELSE read_exit(dbv, body, SafeSession_exit(body.exc, co))

\* A get_time_interval that answers an empty row_list with (None, None).
get_time_interval_none(r) ==
    IF r.exc # NoExc
    THEN r
    ELSE IF r.value.result = <<>>
    THEN [r EXCEPT !.value = [result |-> <<PyNone, PyNone>>]]
    ELSE [r EXCEPT !.value = [result |-> <<r.value.result[1],
                                           r.value.result[
                                               Len(r.value.result)]>>]]

\* get_time_interval after its with block has been left as r says, with
\* row_list as the result: return (row_list[0][0], row_list[-1][0]), an
\* IndexError when row_list is empty.
get_time_interval(r) ==
    IF r.exc # NoExc
    THEN r
    ELSE IF r.value.result = <<>>
    THEN [r EXCEPT !.exc = "IndexError"]
    ELSE [r EXCEPT !.value = [result |-> <<r.value.result[1],
                                           r.value.result[
                                               Len(r.value.result)]>>]]

---------------------------------------------------------------------------
(* SystemDataOperator: the one-row tables of online and administrative     *)
(* status, one column per general device.                                  *)

\* cfg.LAST_ONLINE_TABLE and cfg.ADMIN_STATUS_TABLE: the names of the two
\* tables.
LAST_ONLINE_TABLE == "LastOnline"
ADMIN_STATUS_TABLE == "AdministrativeStatus"

\* _create_system_table after alter_table has given a: declare the table
\* with the given columns (no primary key) and create what is declared
\* and missing; declared lists the columns the registry now holds with
\* the type given.
declare_system_table(name, columns, a) ==
    IF a.exc # NoExc
    THEN [db |-> a.db, md |-> a.md, exc |-> a.exc, declared |-> {}]
    ELSE LET md == [t \in DOMAIN a.md \cup {name} |->
                      IF t # name THEN a.md[t]
                      ELSE IF t \in DOMAIN a.md
                      THEN [pk |-> a.md[t].pk,
                            cols |-> a.md[t].cols \cup columns]
                      ELSE [pk |-> {}, cols |-> columns]]
         IN  [db |-> create_all(a.db, md), md |-> md, exc |-> NoExc,
              declared |-> {<<name, c>> : c \in columns}]

\* _create_system_table(name, column_names, type_)
_create_system_table(dbv, md, name, column_names) ==
    declare_system_table(name, Range(column_names),
                         alter_table(dbv, md, name, column_names))

\* SystemDataOperator.create_tables after the first table has given s:
\* the second table.
create_admin_table(column_names, s) ==
    IF s.exc # NoExc
    THEN s
    ELSE [_create_system_table(s.db, s.md, ADMIN_STATUS_TABLE, column_names)
             EXCEPT !.declared = @ \cup s.declared]

\* A with body that keeps the rows the table has and adds the new one.
append_row(dbv, table_name, type_, column_values_dict, t) ==
    IF table_name \notin DOMAIN dbv
    THEN [tx |-> dbv, md |-> t.md, exc |-> "ProgrammingError",
          executed |-> <<>>, updated |-> {}]
    ELSE [tx |-> [dbv EXCEPT ![table_name].rows =
                     @ \cup {NewRow(dbv[table_name], t.md[table_name].cols,
                                    type_, column_values_dict)}],
          md |-> t.md, exc |-> NoExc,
          executed |-> <<table_name>>, updated |-> {}]

\* The with body of save_device_admin_status and of
\* save_devices_online_status once Table(...) has given t:
\* session.commit(), delete every row, _insert the dict (into the emptied
\* table, so the insert meets no row).
replace_row(dbv, table_name, type_, column_values_dict, t) ==
    IF table_name \notin DOMAIN dbv
    THEN [tx |-> dbv, md |-> t.md, exc |-> "ProgrammingError",
          executed |-> <<>>, updated |-> {}]
    ELSE [tx |-> [dbv EXCEPT ![table_name].rows =
                     {NewRow(dbv[table_name], t.md[table_name].cols,
                             type_, column_values_dict)}],
          md |-> t.md, exc |-> NoExc,
          executed |-> <<table_name>>, updated |-> {}]

\* save_device_admin_status / save_devices_online_status once Table(...)
\* has given t, the commit ending with co.
save_status(dbv, table_name, type_, column_values_dict, co, t) ==
    IF t.exc # NoExc
    THEN [db |-> dbv, md |-> t.md, exc |-> t.exc, session |-> NoSession,
          value |-> [executed |-> <<>>, updated |-> {}]]
    ELSE save_data(dbv,
                   replace_row(dbv, table_name, type_, column_values_dict,
                               t),
                   co)

\* save_devices_online_status(general_devices): gd maps the name of each
\* device to its is_online.
save_devices_online_status(dbv, md, gd, co) ==
    save_status(dbv, LAST_ONLINE_TABLE, "Boolean", gd, co,
                Table_autoload(dbv, md, LAST_ONLINE_TABLE))

\* SystemDataOperator.create_tables after both tables have given s:
\* save_device_admin_status with 'on' for every device.
create_tables_admin_on(column_names, co, s) ==
    IF s.exc # NoExc
    THEN [db |-> s.db, md |-> s.md, exc |-> s.exc, session |-> NoSession,
          value |-> [executed |-> <<>>, updated |-> {}]]
    ELSE save_status(s.db, ADMIN_STATUS_TABLE, "Text",
                     [d \in Range(column_names) |-> PyStr("on")], co,
                     Table_autoload(s.db, s.md, ADMIN_STATUS_TABLE))

\* The rows response.first() can give: any row of the table, no row
\* (None) when the table is empty.
FirstRows(dbv, table_name) ==
    IF table_name \notin DOMAIN dbv \/ dbv[table_name].rows = {}
    THEN {EmptyMap}
    ELSE dbv[table_name].rows

\* load_devices_online_status(general_devices) once Table(...) has given
\* t: one session per column that names a device of gd, in the order
\* order of the columns; row is what first() gives, co the outcome of the
\* commit of session number k (the others go through), tp the typed
\* columns of the registry.  A Boolean column gives bool, a reflected one
\* the int the store holds.
load_devices_online_status(dbv, tp, gd, order, k, row, co, t) ==
    IF t.exc # NoExc
    THEN [md |-> t.md, exc |-> t.exc, general_devices |-> gd]
    ELSE LET toload == SelectSeq(order,
                           LAMBDA c : /\ c \in t.md[LAST_ONLINE_TABLE].cols
                                      /\ c \in DOMAIN gd)
             exc == IF toload = <<>> THEN NoExc
                    ELSE SafeSession_exit(IF row = EmptyMap THEN "TypeError"
                                          ELSE NoExc, co).exc
             assigned == IF row = EmptyMap THEN {}
                         ELSE {toload[i] : i \in
                                 {j \in DOMAIN toload :
                                    exc = NoExc \/ j <= k}}
         IN  [md |-> t.md, exc |-> exc,
              general_devices |->
                  [d \in DOMAIN gd |->
                      IF d \notin assigned THEN gd[d]
                      ELSE IF row[d] = DbNull THEN PyNone
                      ELSE IF <<LAST_ONLINE_TABLE, d>> \in tp
                      THEN PyBool(row[d][2])
                      ELSE FromCell(row[d])]]

\* An UPDATE that sets every column of the table.
set_admin_status_all(dbv, md, device_name, status) ==
    IF ADMIN_STATUS_TABLE \notin DOMAIN dbv
    THEN [tx |-> dbv, md |-> md, exc |-> "ProgrammingError",
          executed |-> <<>>, updated |-> {}]
    ELSE IF device_name \notin dbv[ADMIN_STATUS_TABLE].cols
    THEN [tx |-> dbv, md |-> md, exc |-> "OperationalError",
          executed |-> <<>>, updated |-> {}]
    ELSE [tx |-> [dbv EXCEPT ![ADMIN_STATUS_TABLE].rows =
                     {[c \in DOMAIN r |-> DbText(status)] : r \in @}],
          md |-> md, exc |-> NoExc,
          executed |-> <<ADMIN_STATUS_TABLE>>, updated |-> {}]

\* The with body of set_admin_status(device_name, status):
\* UPDATE table SET device_name = "status", on every row; the store
\* refuses a table or a column it does not have.
set_admin_status(dbv, md, device_name, status) ==
    IF ADMIN_STATUS_TABLE \notin DOMAIN dbv
    THEN [tx |-> dbv, md |-> md, exc |-> "ProgrammingError",
          executed |-> <<>>, updated |-> {}]
    ELSE IF device_name \notin dbv[ADMIN_STATUS_TABLE].cols
    THEN [tx |-> dbv, md |-> md, exc |-> "OperationalError",
          executed |-> <<>>, updated |-> {}]
    ELSE [tx |-> [dbv EXCEPT ![ADMIN_STATUS_TABLE].rows =
                     {[r EXCEPT ![device_name] = DbText(status)] : r \in @}],
          md |-> md, exc |-> NoExc,
          executed |-> <<ADMIN_STATUS_TABLE>>, updated |-> {}]

\* get_admin_status(device_name) up to the end of its with body, once
\* table and column have been resolved as t and first() has given row:
\* response.first()[0], a TypeError when there is no row.
get_admin_status(dbv, device_name, row, t) ==
    IF t.exc # NoExc
    THEN [md |-> t.md, exc |-> t.exc, value |-> <<>>, entered |-> FALSE]
    ELSE IF ADMIN_STATUS_TABLE \notin DOMAIN dbv
    THEN [md |-> t.md, exc |-> "ProgrammingError", value |-> <<>>,
          entered |-> TRUE]
    ELSE IF row = EmptyMap
    THEN [md |-> t.md, exc |-> "TypeError", value |-> <<>>,
          entered |-> TRUE]
    ELSE [md |-> t.md, exc |-> NoExc, value |-> FromCell(row[device_name]),
          entered |-> TRUE]

---------------------------------------------------------------------------
(* The caller: what it passes to the operations.                           *)

\* The params_dict a device named d can have at time cur_time: a reading
\* (value, last_collected) for some of the parameters it can report.
\* last_collected is only read under do_time_check.
ParamsDicts(d, cur_time, do_time_check) ==
    LET collected == IF do_time_check THEN {cur_time, cur_time - 1}
                     ELSE {cur_time}
    IN  UNION {
          {[p \in S |-> [value |-> PyValue(p, f[p][1]),
                          last_collected |-> f[p][2]]] :
             f \in [S -> Values \X collected]} :
          S \in SUBSET Reportable[d]}

\* The list of Device objects with the given params_dicts; a device with
\* nothing to report is left out.
DeviceList(pds) ==
    LET dev(d) == IF DOMAIN pds[d] = {} THEN <<>>
                  ELSE <<[name |-> d, params_dict |-> pds[d]]>>
    IN  dev("Dev01") \o dev("Dev02")

\* The arguments of a save_data call.
SaveArgs ==
    UNION {
      {[cur_time |-> cur_time,
        given_devices |-> DeviceList([d \in Devices |->
                                       IF d = "Dev01" THEN pd1 ELSE pd2]),
        do_time_check |-> do_time_check] :
         pd1 \in ParamsDicts("Dev01", cur_time, do_time_check),
         pd2 \in ParamsDicts("Dev02", cur_time, do_time_check)} :
      cur_time \in Times, do_time_check \in BOOLEAN}

\* The devices dict create_tables gets when device d reports reports[d].
DeviceDict(reports) ==
    [d \in Devices |->
        [p \in reports[d] |-> [value |-> PyNone, last_collected |-> 0]]]

\* The save_data calls: the arguments, the dict get_data_to_save makes of
\* them and an order in which the for loop of save_data iterates it.
SaveCalls ==
    UNION {
      LET data_to_save == get_data_to_save(args.cur_time, args.given_devices,
                                           args.do_time_check)
      IN  {[cur_time |-> args.cur_time, data_to_save |-> data_to_save,
            order |-> order] : order \in Orders(DOMAIN data_to_save)} :
      args \in SaveArgs}

\* begin_time, end_time of a query: None or an integer.
TimeArgs == {PyNone} \cup {PyInt(n) : n \in 0 .. MaxTime + 1}

Idle == [op |-> "idle", exc |-> NoExc, value |-> <<>>, session |-> NoSession]

\* DatabaseOperator.__init__: no size has been computed yet.
NoCache == [last_get_size_time |-> 0, cached_db_size |-> PyNone]

\* time.time() when the caller starts: seconds since the epoch.
StartTime == 1500000000

\* The names of the general devices of the deployment.
GeneralDevices == {"MonitoringServer", "RAID01A"}

\* The database the operators work on (the one the tests create first).
DB_NAME == "session_manager_db"

\* The database names the caller of SessionManager uses.
DbNames == {DB_NAME, "wrong_session_manager_db",
            "session_created_manager_db"}

\* The threads that call one operator at the same time.
Threads == {"A", "B"}

\* A thread that is in no call.
NoCall == [pc |-> "idle", args |-> EmptyMap, local |-> EmptyMap,
           exc |-> NoExc, session |-> NoSession]

\* The keys of alert_statistics.
StatKeys == {"new_alert", "update_alert", "kill_alert"}

\* The Alert objects of the handler and the levels an alert can have;
\* level 0 is no alert.
AlertNames == {"a1", "a2"}
Levels == 0 .. 2

\* What the operations of the collected-data operator never touch, as it
\* is when the caller starts.
InitEnv ==
    /\ cache = NoCache
    /\ typed = {}
    /\ clock = StartTime
    /\ general_devices = [d \in GeneralDevices |-> PyBool(1)]
    /\ server = {DB_NAME}
    /\ managers = {}
    /\ callers = [c \in Threads |-> NoCall]
    \* [0, []] under every key of the statistics (index 0 is the first
    \* component, index 1 the second)
    /\ alert_statistics = [k \in StatKeys |-> <<0, <<>>>>]
    \* no alert is stored; every Alert object has been made with a level
    /\ alerts = [level |-> [a \in AlertNames |-> 1], table |-> {},
                 old |-> <<>>, calls |-> 0]

NoInput == [cur_time |-> 0, given_devices |-> <<>>, do_time_check |-> FALSE]
NoOutput == [done |-> FALSE, data |-> EmptyMap]

---------------------------------------------------------------------------
(* The operations of one operator, called one at a time.                   *)

Init ==
    /\ db = EmptyMap
    /\ metadata = EmptyMap
    /\ ret = Idle
    /\ writes = 0
    /\ inp = NoInput
    /\ out = NoOutput
    /\ InitEnv

\* A call can start: the previous one has returned.
CanCall == ret.op = "idle"

CanWrite == CanCall /\ writes < MaxWrites

\* DatabaseOperator.__init__: a new operator on the same store starts with
\* an empty MetaData.
NewOperator ==
    /\ CanWrite
    /\ metadata' = EmptyMap
    /\ typed' = {}
    /\ cache' = NoCache
    /\ ret' = [Idle EXCEPT !.op = "__init__"]
    /\ writes' = writes + 1
    /\ UNCHANGED <<db, inp, out, env>>

\* The call op with arguments input ends as r says: the store and the
\* registry it leaves, and what the caller sees.
Returns(op, input, r) ==
    /\ db' = r.db
    /\ metadata' = r.md
    /\ ret' = [op |-> op, exc |-> r.exc, value |-> input @@ r.value,
               session |-> r.session]

\* alter_table called by the user of the operator rather than by
\* __create_table.
AlterTable ==
    /\ CanWrite
    /\ \E table_name \in Params, D \in SUBSET Devices :
         \E column_names \in Orders(D) :
            Returns("alter_table",
                    [table_name |-> table_name,
                     column_names |-> column_names],
                    alter_table_call(alter_table(db, metadata, table_name,
                                                 column_names)))
    /\ writes' = writes + 1
    /\ UNCHANGED <<inp, out, cache, typed, env>>

CreateTables ==
    /\ CanWrite
    /\ \E reports \in [Devices -> SUBSET Params] :
         /\ \A d \in Devices : reports[d] \subseteq Reportable[d]
         /\ \E params \in Orders(UNION {reports[d] : d \in Devices}) :
              Returns("create_tables", [reports |-> reports],
                      create_tables(db, metadata,
                                    DeviceList(DeviceDict(reports)),
                                    params))
    /\ writes' = writes + 1
    /\ UNCHANGED <<inp, out, cache, typed, env>>

SaveData ==
    /\ CanWrite
    /\ \E call \in SaveCalls :
         LET body == save_data_body(db, metadata, call.data_to_save,
                                    call.order)
         IN  \E co \in CommitOutcomes :
               Returns("save_data",
                       [time |-> call.cur_time, data |-> call.data_to_save,
                        commit |-> co],
                       save_data(db, body, co))
    /\ writes' = writes + 1
    /\ UNCHANGED <<inp, out, cache, typed, env>>

GetTimesValues ==
    /\ CanCall
    /\ \E device_name \in Devices, parameter_name \in Params,
          begin_time \in TimeArgs, end_time \in TimeArgs :
         LET body == get_times_values_body(db, metadata, device_name,
                                           parameter_name, begin_time,
                                           end_time)
         IN  \E co \in CommitOutcomes :
               Returns("get_times_values",
                       [device_name |-> device_name,
                        parameter_name |-> parameter_name,
                        begin_time |-> begin_time, end_time |-> end_time],
                       ReadReturn(db, body, co))
    /\ UNCHANGED <<writes, inp, out, cache, typed, env>>

GetLastData ==
    /\ CanCall
    /\ \E device_name \in Devices, parameter_name \in Params,
          limit \in 0 .. MaxTime + 2 :
         LET body == get_last_data_body(db, metadata, device_name,
                                        parameter_name, limit)
         IN  \E co \in CommitOutcomes :
               Returns("get_last_data",
                       [device_name |-> device_name,
                        parameter_name |-> parameter_name,
                        limit |-> limit],
                       ReadReturn(db, body, co))
    /\ UNCHANGED <<writes, inp, out, cache, typed, env>>

GetTimeInterval ==
    /\ CanCall
    /\ \E table_name \in Params, co \in CommitOutcomes :
         Returns("get_time_interval", [table_name |-> table_name],
                 get_time_interval(
                     ReadReturn(db,
                                get_time_interval_body(db, metadata,
                                                       table_name),
                                co)))
    /\ UNCHANGED <<writes, inp, out, cache, typed, env>>

\* The caller takes what the call returned (or raised).
Return ==
    /\ ret.op # "idle"
    /\ ret' = Idle
    /\ UNCHANGED <<db, metadata, writes, inp, out, cache, typed, env>>

Next ==
    \/ NewOperator
    \/ CreateTables
    \/ SaveData
    \/ GetTimesValues
    \/ GetLastData
    \/ GetTimeInterval
    \/ Return

Spec == Init /\ [][Next]_vars

\* get_size() ends as g says; the time a query takes is counted when the
\* cache is filled after it.
GetSizeReturns(g, elapsed) ==
    /\ ret' = [op |-> "get_size", exc |-> g.exc, value |-> g.value,
               session |-> g.session]
    /\ cache' = g.cache
    /\ clock' = IF g.cache.last_get_size_time > clock
                THEN clock + elapsed ELSE clock

GetSize ==
    /\ CanCall
    /\ \E co \in CommitOutcomes, elapsed \in {0, 1} :
         GetSizeReturns(get_size(db, cache, clock, co, elapsed), elapsed)
    /\ UNCHANGED <<db, metadata, writes, inp, out, typed, general_devices,
                   server, managers,
                   callers, alert_statistics, alerts>>

\* Time passes between two calls: half a refresh interval.
Tick ==
    /\ CanCall
    /\ \E dt \in {size_update_time \div 2} :
         /\ clock + dt <= StartTime + MaxClock * size_update_time
         /\ clock' = clock + dt
    /\ UNCHANGED <<db, metadata, ret, writes, inp, out, cache, typed,
                   general_devices, server, managers,
                   callers, alert_statistics, alerts>>

\* The caller of the collected-data operator who also asks for the size
\* of the database from time to time.
NextSize ==
    \/ NewOperator
    \/ CreateTables
    \/ SaveData
    \/ GetSize
    \/ Tick
    \/ Return

\* The operator has been constructed: one call of __init__ is made.
InitSize ==
    /\ db = EmptyMap
    /\ metadata = EmptyMap
    /\ ret = Idle
    /\ writes = 1
    /\ inp = NoInput
    /\ out = NoOutput
    /\ InitEnv

SpecSize == InitSize /\ [][NextSize]_vars

\* A call op(db_name) of SessionManager ends as r says.
ManagerReturns(op, db_name, r) ==
    /\ ret' = [op |-> op, exc |-> r.exc, session |-> NoSession,
               value |-> [db_name |-> db_name, existed |-> db_name \in server,
                          manager |-> r.manager]]
    /\ server' = r.server
    /\ managers' = managers \cup r.manager
    /\ UNCHANGED <<db, metadata, writes, inp, out, cache, typed, clock,
                   general_devices,
                   callers, alert_statistics, alerts>>

CreateDb ==
    /\ CanCall
    /\ \E db_name \in DbNames :
         ManagerReturns("create_db", db_name,
                        [manager |-> {}] @@ create_db(server, db_name))

DropDatabase ==
    /\ CanCall
    /\ \E db_name \in DbNames :
         ManagerReturns("drop_database", db_name,
                        [manager |-> {}] @@ drop_database(server, db_name))

NewSessionManager ==
    /\ CanCall
    /\ \E db_name \in DbNames :
         ManagerReturns("SessionManager", db_name,
                        [server |-> server] @@
                        SessionManager_init(server, db_name))

\* SessionManager.delete() on one of the objects held: finalize, then
\* drop the database of the object.
Delete ==
    /\ CanCall
    /\ \E m \in managers :
         ManagerReturns("delete", m.name,
                        [manager |-> {}] @@ drop_database(server, m.name))

\* The caller of SessionManager.
NextManager ==
    \/ CreateDb
    \/ DropDatabase
    \/ NewSessionManager
    \/ Delete
    \/ Return

SpecManager == Init /\ [][NextManager]_vars

\* The general devices of the caller change: other devices, other
\* is_online flags.
SetDevices ==
    /\ CanCall
    /\ \E G \in SUBSET GeneralDevices \ {{}} :
         general_devices' \in [G -> {PyBool(0), PyBool(1)}]
    /\ UNCHANGED <<db, metadata, ret, writes, inp, out, cache, typed, clock,
                   server, managers,
                   callers, alert_statistics, alerts>>

\* SystemDataOperator.create_tables(general_devices) ends as r says, the
\* two tables having given s.
SystemCreateReturns(s, r) ==
    /\ Returns("create_tables", [devices |-> DOMAIN general_devices], r)
    /\ typed' = typed \cup s.declared

SystemCreateTables ==
    /\ CanCall
    /\ \E column_names \in Orders(DOMAIN general_devices),
          co \in CommitOutcomes :
         SystemCreateReturns(
             create_admin_table(
                 column_names,
                 _create_system_table(db, metadata, LAST_ONLINE_TABLE,
                                      column_names)),
             create_tables_admin_on(
                 column_names, co,
                 create_admin_table(
                     column_names,
                     _create_system_table(db, metadata, LAST_ONLINE_TABLE,
                                          column_names))))
    /\ UNCHANGED <<writes, inp, out, cache, env>>

SaveDevicesOnlineStatus ==
    /\ CanCall
    /\ \E co \in CommitOutcomes :
         Returns("save_devices_online_status",
                 [devices |-> general_devices, commit |-> co],
                 save_devices_online_status(db, metadata, general_devices,
                                            co))
    /\ UNCHANGED <<writes, inp, out, cache, typed, env>>

\* load_devices_online_status(general_devices) ends as l says.
LoadReturns(l) ==
    /\ ret' = [op |-> "load_devices_online_status", exc |-> l.exc,
               value |-> [before |-> general_devices],
               session |-> NoSession]
    /\ metadata' = l.md
    /\ general_devices' = l.general_devices

LoadDevicesOnlineStatus ==
    /\ CanCall
    /\ \E order \in Orders(GeneralDevices), k \in 1 .. 2,
          row \in FirstRows(db, LAST_ONLINE_TABLE), co \in CommitOutcomes :
         LoadReturns(load_devices_online_status(
                         db, typed, general_devices, order, k, row, co,
                         Table_autoload(db, metadata, LAST_ONLINE_TABLE)))
    /\ UNCHANGED <<db, writes, inp, out, cache, typed, clock, server,
                   managers,
                   callers, alert_statistics, alerts>>

SetAdminStatus ==
    /\ CanCall
    /\ \E device_name \in GeneralDevices, status \in {"on", "off"},
          co \in CommitOutcomes :
         Returns("set_admin_status",
                 [device_name |-> device_name, status |-> status,
                  commit |-> co],
                 save_data(db,
                           set_admin_status(db, metadata, device_name,
                                            status),
                           co))
    /\ UNCHANGED <<writes, inp, out, cache, typed, env>>

GetAdminStatus ==
    /\ CanCall
    /\ \E device_name \in GeneralDevices,
          row \in FirstRows(db, ADMIN_STATUS_TABLE), co \in CommitOutcomes :
         Returns("get_admin_status", [device_name |-> device_name],
                 ReadReturn(db,
                            get_admin_status(
                                db, device_name, row,
                                ResolveColumn(db, metadata, device_name,
                                              ADMIN_STATUS_TABLE)),
                            co))
    /\ UNCHANGED <<writes, inp, out, cache, typed, env>>

\* The caller of the system-data operator.
NextSystem ==
    \/ NewOperator
    \/ SetDevices
    \/ SystemCreateTables
    \/ SaveDevicesOnlineStatus
    \/ LoadDevicesOnlineStatus
    \/ SetAdminStatus
    \/ GetAdminStatus
    \/ Return

SpecSystem == Init /\ [][NextSystem]_vars

\* The same caller, who also calls alter_table itself.
NextAlter == Next \/ AlterTable

SpecAlter == Init /\ [][NextAlter]_vars

\* The registry never holds more than the store about a table of the
\* store: the same primary key and no column the store lacks.  (A column
\* added by alter_table is in the store only; a table declared by a
\* create_tables that raised is in the registry only.)
MetadataWithinStore ==
    \A t \in DOMAIN metadata \cap DOMAIN db :
        /\ metadata[t].pk = db[t].pk
        /\ metadata[t].cols \subseteq db[t].cols


---------------------------------------------------------------------------
(* get_data_to_save on its own: one call on arguments drawn from every     *)
(* list of devices, any device reporting any parameter.                    *)

\* The params_dicts of a device at cur_time: each parameter absent, or
\* read with some value now (last_collected = cur_time) or one tick ago.
AnyParamsDicts(cur_time) ==
    UNION {
      {[p \in S |-> [value |-> PyValue(p, f[p][1]),
                      last_collected |-> f[p][2]]] :
         f \in [S -> Values \X {cur_time, cur_time - 1}]} :
      S \in SUBSET Params}

\* The lists of Device objects with distinct names, in any order.
DeviceLists(cur_time) ==
    UNION {
      UNION {
        {[i \in DOMAIN names |->
            [name |-> names[i], params_dict |-> pds[names[i]]]] :
           pds \in [Range(names) -> AnyParamsDicts(cur_time)]} :
        names \in Orders(D)} :
      D \in SUBSET Devices}

DataArgs ==
    UNION {
      {[cur_time |-> cur_time, given_devices |-> given_devices,
        do_time_check |-> do_time_check] :
         given_devices \in DeviceLists(cur_time),
         do_time_check \in BOOLEAN} :
      cur_time \in Times}

InitData ==
    /\ db = EmptyMap
    /\ metadata = EmptyMap
    /\ ret = Idle
    /\ writes = 0
    /\ inp \in DataArgs
    /\ out = NoOutput
    /\ InitEnv

GetDataToSave ==
    /\ ~out.done
    /\ out' = [done |-> TRUE,
               data |-> get_data_to_save(inp.cur_time, inp.given_devices,
                                         inp.do_time_check)]
    /\ UNCHANGED <<db, metadata, ret, writes, inp, cache, typed, env>>

NextData == GetDataToSave

SpecData == InitData /\ [][NextData]_vars


---------------------------------------------------------------------------
(* Two threads in save_data on one operator.  Each thread has its own      *)
(* session (scoped_session); the store keeps what a session has written    *)
(* locked and invisible to the other until the session commits.            *)

\* Number of save_data calls the threads make.
MaxCalls == 3

\* The table every thread writes to, created with a column per device.
InitSavers ==
    /\ db = create_tables(EmptyMap, EmptyMap,
                          DeviceList(DeviceDict([d \in Devices |->
                                                    {"CpuTemp1"}])),
                          <<"CpuTemp1">>).db
    /\ metadata = create_tables(EmptyMap, EmptyMap,
                                DeviceList(DeviceDict([d \in Devices |->
                                                          {"CpuTemp1"}])),
                                <<"CpuTemp1">>).md
    /\ ret = Idle
    /\ writes = 1
    /\ inp = NoInput
    /\ out = NoOutput
    /\ InitEnv

\* The threads other than c that are at pcs in a statement on the row of
\* table_name for time cur_time.
Contenders(cs, c, table_name, cur_time, pcs) ==
    {o \in Threads \ {c} :
        /\ cs[o].pc \in pcs
        /\ cs[o].args.table_name = table_name
        /\ cs[o].args.cur_time = cur_time}

\* An insert whose IntegrityError is not caught.
insert_no_except(dbv, md, table_name, column_values_dict) ==
    IF IntegrityError(dbv[table_name],
                      NewRow(dbv[table_name], md[table_name].cols,
                             DB_TYPES[table_name], column_values_dict))
    THEN [pc |-> "exit", exc |-> "IntegrityError", pending |-> "none"]
    ELSE [pc |-> "exit", exc |-> NoExc, pending |-> "insert"]

\* try: session.execute(table.insert(), column_values_dict) on the
\* committed store dbv: the row is written, pending the commit, or the
\* store raises IntegrityError, which is caught: the update is next.
insert_or_except(dbv, md, table_name, column_values_dict) ==
    IF IntegrityError(dbv[table_name],
                      NewRow(dbv[table_name], md[table_name].cols,
                             DB_TYPES[table_name], column_values_dict))
    THEN [pc |-> "update", exc |-> NoExc, pending |-> "none"]
    ELSE [pc |-> "exit", exc |-> NoExc, pending |-> "insert"]

\* What the commit of a session makes of the store: the pending
\* statement of the session takes effect.
commit_pending(dbv, md, table_name, column_values_dict, pending) ==
    IF pending = "insert"
    THEN [dbv EXCEPT ![table_name].rows =
             @ \cup {NewRow(dbv[table_name], md[table_name].cols,
                            DB_TYPES[table_name], column_values_dict)}]
    ELSE IF pending = "update"
    THEN [dbv EXCEPT ![table_name].rows =
             UpdateRows(dbv[table_name], DB_TYPES[table_name],
                        column_values_dict)]
    ELSE dbv

\* Thread c calls save_data(cur_time, given_devices) with readings of one
\* parameter: get_data_to_save, then Table(...) in _insert_in_session;
\* overlaps tells whether the other thread is in a call at that moment.
SaverCall(c) ==
    /\ callers[c].pc = "idle"
    /\ writes < 1 + MaxCalls
    /\ \E call \in SaveCalls :
         /\ call.order = <<"CpuTemp1">>
         /\ callers' = [callers EXCEPT ![c] =
               [pc |-> IF Table_autoload(db, metadata, call.order[1]).exc
                          = NoExc
                       THEN "insert" ELSE "done",
                args |-> [table_name |-> call.order[1],
                          cur_time |-> call.cur_time,
                          column_values_dict |->
                              call.data_to_save[call.order[1]],
                          overlaps |-> \E o \in Threads \ {c} :
                                          callers[o].pc \notin
                                              {"idle", "done"}],
                local |-> [pending |-> "none"],
                exc |-> Table_autoload(db, metadata, call.order[1]).exc,
                session |-> NoSession]]
    /\ writes' = writes + 1
    /\ UNCHANGED <<db, metadata, ret, inp, out, cache, typed, clock,
                   general_devices, server, managers, alert_statistics,
                   alerts>>

\* Thread c executes its INSERT.  It waits while another session holds
\* the row of its time written and uncommitted.
SaverInsert(c) ==
    /\ callers[c].pc = "insert"
    /\ Contenders(callers, c, callers[c].args.table_name,
                  callers[c].args.cur_time, {"exit"}) = {}
    /\ callers' = [callers EXCEPT ![c] =
          [pc |-> insert_or_except(db, metadata, @.args.table_name,
                                   @.args.column_values_dict).pc,
           args |-> @.args,
           local |-> [pending |->
                        insert_or_except(db, metadata, @.args.table_name,
                                         @.args.column_values_dict).pending],
           exc |-> insert_or_except(db, metadata, @.args.table_name,
                                    @.args.column_values_dict).exc,
           session |-> @.session]]
    /\ UNCHANGED <<db, metadata, ret, writes, inp, out, cache, typed, clock,
                   general_devices, server, managers, alert_statistics,
                   alerts>>

\* Thread c executes its UPDATE after the IntegrityError.  The refused
\* INSERT has left a shared lock on the row; when another session holds
\* one too, each waits for the other and the store picks a victim (below).
SaverUpdate(c) ==
    /\ callers[c].pc = "update"
    /\ Contenders(callers, c, callers[c].args.table_name,
                  callers[c].args.cur_time, {"update", "exit"}) = {}
    /\ callers' = [callers EXCEPT ![c].pc = "exit",
                                  ![c].local = [pending |-> "update"]]
    /\ UNCHANGED <<db, metadata, ret, writes, inp, out, cache, typed, clock,
                   general_devices, server, managers, alert_statistics,
                   alerts>>

\* Two sessions hold a shared lock on the same row and both are about to
\* update it: the store ends the deadlock by rolling one of them back,
\* whose UPDATE raises OperationalError.
SaverDeadlock(c) ==
    /\ callers[c].pc = "update"
    /\ Contenders(callers, c, callers[c].args.table_name,
                  callers[c].args.cur_time, {"update"}) # {}
    /\ callers' = [callers EXCEPT ![c].pc = "exit",
                                  ![c].exc = "OperationalError"]
    /\ UNCHANGED <<db, metadata, ret, writes, inp, out, cache, typed, clock,
                   general_devices, server, managers, alert_statistics,
                   alerts>>

\* Thread c leaves the with block of save_data: SafeSession.__exit__, the
\* commit ending with co.
SaverExit(c) ==
    /\ callers[c].pc = "exit"
    /\ \E co \in CommitOutcomes :
         /\ callers' = [callers EXCEPT
               ![c].pc = "done",
               ![c].session = SafeSession_exit(callers[c].exc, co),
               ![c].exc = SafeSession_exit(callers[c].exc, co).exc]
         /\ db' = IF SafeSession_exit(callers[c].exc, co).committed
                  THEN commit_pending(db, metadata,
                                      callers[c].args.table_name,
                                      callers[c].args.column_values_dict,
                                      callers[c].local.pending)
                  ELSE db
    /\ UNCHANGED <<metadata, ret, writes, inp, out, cache, typed, clock,
                   general_devices, server, managers, alert_statistics,
                   alerts>>

\* The calls that were made at the same time have all returned: the
\* threads are free for the next ones.
SaversReturn ==
    /\ \A c \in Threads : callers[c].pc \in {"idle", "done"}
    /\ \E c \in Threads : callers[c].pc = "done"
    /\ callers' = [c \in Threads |-> NoCall]
    /\ UNCHANGED <<db, metadata, ret, writes, inp, out, cache, typed, clock,
                   general_devices, server, managers, alert_statistics,
                   alerts>>

NextSavers ==
    \/ \E c \in Threads : SaverCall(c)
    \/ \E c \in Threads : SaverInsert(c)
    \/ \E c \in Threads : SaverUpdate(c)
    \/ \E c \in Threads : SaverDeadlock(c)
    \/ \E c \in Threads : SaverExit(c)
    \/ SaversReturn

SpecSavers == InitSavers /\ [][NextSavers]_vars

---------------------------------------------------------------------------
(* Two threads in get_size on one operator: they share                     *)
(* self.last_get_size_time and self.cached_db_size, and nothing keeps the  *)
(* statements of one thread together.                                      *)

\* Thread c calls get_size().
SizerCall(c) ==
    /\ callers[c].pc = "idle"
    /\ callers' = [callers EXCEPT ![c].pc = "check",
                                  ![c].local = [size |-> PyNone,
                                                result |-> PyNone]]
    /\ UNCHANGED <<db, metadata, ret, writes, inp, out, cache, typed, clock,
                   general_devices, server, managers, alert_statistics,
                   alerts>>

\* if time.time() > self.last_get_size_time + self.size_update_time
SizerCheck(c) ==
    /\ callers[c].pc = "check"
    /\ callers' = [callers EXCEPT ![c].pc = IF size_is_stale(clock, cache)
                                            THEN "query" ELSE "read"]
    /\ UNCHANGED <<db, metadata, ret, writes, inp, out, cache, typed, clock,
                   general_devices, server, managers, alert_statistics,
                   alerts>>

\* The with block of get_size: the query, responce.first()[1] and
\* __exit__, the commit ending with co; an exception ends the call.
SizerQuery(c) ==
    /\ callers[c].pc = "query"
    /\ \E co \in CommitOutcomes :
         callers' = [callers EXCEPT
            ![c].session = SafeSession_exit(IF db_size_mb(db) = PyNone
                                            THEN "TypeError" ELSE NoExc, co),
            ![c].exc = SafeSession_exit(IF db_size_mb(db) = PyNone
                                        THEN "TypeError" ELSE NoExc, co).exc,
            ![c].pc = IF SafeSession_exit(IF db_size_mb(db) = PyNone
                                          THEN "TypeError" ELSE NoExc,
                                          co).exc = NoExc
                      THEN "stamp" ELSE "done",
            ![c].local.size = db_size_mb(db)]
    /\ UNCHANGED <<db, metadata, ret, writes, inp, out, cache, typed, clock,
                   general_devices, server, managers, alert_statistics,
                   alerts>>

\* self.last_get_size_time = time.time()
SizerStamp(c) ==
    /\ callers[c].pc = "stamp"
    /\ cache' = [cache EXCEPT !.last_get_size_time = clock]
    /\ callers' = [callers EXCEPT ![c].pc = "store"]
    /\ UNCHANGED <<db, metadata, ret, writes, inp, out, typed, clock,
                   general_devices, server, managers, alert_statistics,
                   alerts>>

\* self.cached_db_size = size_of_database_in_mb; return it
SizerStore(c) ==
    /\ callers[c].pc = "store"
    /\ cache' = [cache EXCEPT !.cached_db_size = callers[c].local.size]
    /\ callers' = [callers EXCEPT ![c].pc = "done",
                                  ![c].local.result = callers[c].local.size]
    /\ UNCHANGED <<db, metadata, ret, writes, inp, out, typed, clock,
                   general_devices, server, managers, alert_statistics,
                   alerts>>

\* else: size_of_database_in_mb = self.cached_db_size; return it
SizerRead(c) ==
    /\ callers[c].pc = "read"
    /\ callers' = [callers EXCEPT ![c].pc = "done",
                                  ![c].local.result = cache.cached_db_size]
    /\ UNCHANGED <<db, metadata, ret, writes, inp, out, cache, typed, clock,
                   general_devices, server, managers, alert_statistics,
                   alerts>>

\* The caller of thread c takes what get_size returned (or raised).
SizerReturn(c) ==
    /\ callers[c].pc = "done"
    /\ callers' = [callers EXCEPT ![c] = NoCall]
    /\ UNCHANGED <<db, metadata, ret, writes, inp, out, cache, typed, clock,
                   general_devices, server, managers, alert_statistics,
                   alerts>>

\* The threads ask for the size while time passes and data is saved.
NextSizers ==
    \/ \E c \in Threads : SizerCall(c)
    \/ \E c \in Threads : SizerCheck(c)
    \/ \E c \in Threads : SizerQuery(c)
    \/ \E c \in Threads : SizerStamp(c)
    \/ \E c \in Threads : SizerStore(c)
    \/ \E c \in Threads : SizerRead(c)
    \/ \E c \in Threads : SizerReturn(c)
    \/ SaveData
    \/ Tick
    \/ Return

\* The operator has been constructed and its table created.
InitSizers ==
    /\ db = create_tables(EmptyMap, EmptyMap,
                          DeviceList(DeviceDict([d \in Devices |->
                                                    {"CpuTemp1"}])),
                          <<"CpuTemp1">>).db
    /\ metadata = create_tables(EmptyMap, EmptyMap,
                                DeviceList(DeviceDict([d \in Devices |->
                                                          {"CpuTemp1"}])),
                                <<"CpuTemp1">>).md
    /\ ret = Idle
    /\ writes = 2
    /\ inp = NoInput
    /\ out = NoOutput
    /\ InitEnv

SpecSizers == InitSizers /\ [][NextSizers]_vars

---------------------------------------------------------------------------
(* AlertDataOperator: alerts are added, updated and killed, and the        *)
(* alert_statistics of the caller are kept along.                          *)

\* Number of calls the alert handler makes.
MaxAlertCalls == 4

\* alert.to_dict() / old_alert.to_dict(): the columns of the object as a
\* dict.
to_dict(alert, level) == [name |-> alert, level |-> level]

\* Leaving the with block of an alert call whose body has made the
\* statistics st, ended with bodyExc and, once committed, leaves al: the
\* commit ends with co.
alert_exit(al, committed, st, bodyExc, co) ==
    [alerts |-> IF SafeSession_exit(bodyExc, co).committed
                THEN committed ELSE al,
     alert_statistics |-> st,
     exc |-> SafeSession_exit(bodyExc, co).exc,
     session |-> SafeSession_exit(bodyExc, co)]

\* add_alert(alert, alert_statistics): passed tells whether a (non-empty)
\* alert_statistics is given.
add_alert(al, st, alert, passed, co) ==
    IF al.level[alert] = 0
    THEN \* the guard returns before a session is opened
         [alerts |-> al, alert_statistics |-> st, exc |-> NoExc,
          session |-> NoSession]
    ELSE alert_exit(al, [al EXCEPT !.table = @ \cup {alert}],
                    IF passed
                    THEN [st EXCEPT !["new_alert"] =
                            <<@[1] + 1,
                              Append(@[2], to_dict(alert, al.level[alert]))>>]
                    ELSE st,
                    NoExc, co)

\* The statistics of kill_alert: the counter of kill_alert is raised,
\* then the last entry of update_alert is popped (IndexError when there
\* is none), appended to kill_alert, and the counter of update_alert
\* lowered.
kill_statistics(st) ==
    IF st["update_alert"][2] = <<>>
    THEN [st EXCEPT !["kill_alert"] = <<@[1] + 1, @[2]>>]
    ELSE [st EXCEPT
            !["kill_alert"] =
                <<@[1] + 1,
                  Append(@[2], st["update_alert"][2][
                                   Len(st["update_alert"][2])])>>,
            !["update_alert"] =
                <<@[1] - 1, SubSeq(@[2], 1, Len(@[2]) - 1)>>]

\* kill_alert(alert, level, alert_statistics); session.delete refuses an
\* object that is not persisted.
kill_alert(al, st, alert, level, passed, co) ==
    IF level # 0
    THEN \* the guard returns before a session is opened
         [alerts |-> al, alert_statistics |-> st, exc |-> NoExc,
          session |-> NoSession]
    ELSE IF alert \notin al.table
    THEN alert_exit(al, al, st, "InvalidRequestError", co)
    ELSE alert_exit(al, [al EXCEPT !.table = @ \ {alert}],
                    IF passed THEN kill_statistics(st) ELSE st,
                    IF passed /\ st["update_alert"][2] = <<>>
                    THEN "IndexError" ELSE NoExc,
                    co)

\* update_alert(alert, level, alert_statistics): alert.level is set
\* before the session is opened.
update_alert(al, st, alert, level, passed, co) ==
    IF level = al.level[alert]
    THEN \* the guard returns before a session is opened
         [alerts |-> al, alert_statistics |-> st, exc |-> NoExc,
          session |-> NoSession]
    ELSE alert_exit([al EXCEPT !.level[alert] = level],
                    [al EXCEPT !.level[alert] = level,
                               !.old = Append(@, to_dict(alert,
                                                        al.level[alert]))],
                    IF passed
                    THEN [st EXCEPT !["update_alert"] =
                            <<@[1] + 1,
                              Append(@[2],
                                     [new_level |-> level] @@
                                     to_dict(alert, al.level[alert]))>>]
                    ELSE st,
                    NoExc, co)

\* A call op of the alert handler ends as r says.
AlertReturns(op, input, r) ==
    /\ alerts' = [r.alerts EXCEPT !.calls = @ + 1]
    /\ alert_statistics' = r.alert_statistics
    /\ ret' = [op |-> op, exc |-> r.exc, value |-> input,
               session |-> r.session]
    /\ UNCHANGED <<db, metadata, writes, inp, out, cache, typed, clock,
                   general_devices, server, managers, callers>>

AddAlert ==
    /\ CanCall
    /\ alerts.calls < MaxAlertCalls
    /\ \E alert \in AlertNames, passed \in BOOLEAN, co \in CommitOutcomes :
         AlertReturns("add_alert", [alert |-> alert, passed |-> passed],
                      add_alert(alerts, alert_statistics, alert, passed, co))

KillAlert ==
    /\ CanCall
    /\ alerts.calls < MaxAlertCalls
    /\ \E alert \in AlertNames, level \in Levels, passed \in BOOLEAN,
          co \in CommitOutcomes :
         AlertReturns("kill_alert",
                      [alert |-> alert, level |-> level, passed |-> passed],
                      kill_alert(alerts, alert_statistics, alert, level,
                                 passed, co))

UpdateAlert ==
    /\ CanCall
    /\ alerts.calls < MaxAlertCalls
    /\ \E alert \in AlertNames, level \in Levels, passed \in BOOLEAN,
          co \in CommitOutcomes :
         AlertReturns("update_alert",
                      [alert |-> alert, level |-> level, passed |-> passed],
                      update_alert(alerts, alert_statistics, alert, level,
                                   passed, co))

\* The alert handler.
NextAlerts ==
    \/ AddAlert
    \/ KillAlert
    \/ UpdateAlert
    \/ Return

SpecAlerts == Init /\ [][NextAlerts]_vars

---------------------------------------------------------------------------
(* Properties of the collected-data store.                                 *)

\* C1: after a save_data that succeeded and was committed, reading back
\* any (device, parameter) of the batch with get_times_values gives exactly
\* one pair for the batch's time, and it carries the value just written --
\* so a second write for the same time replaces the first.
C1_SecondWriteWins ==
    (ret.op = "save_data" /\ ret.exc = NoExc /\ ret.session.committed) =>
        \A p \in DOMAIN ret.value.data :
            \A d \in DOMAIN ret.value.data[p] \ {"time"} :
                LET res == get_times_values_body(db, metadata, d, p,
                                                 PyNone, PyNone)
                    at == {i \in DOMAIN res.value :
                             res.value[i][1] = ret.value.time}
                IN  res.exc = NoExc =>
                        /\ Cardinality(at) = 1
                        /\ \A i \in at :
                             res.value[i][2] = ret.value.data[p][d]

\* A committed save_data whose write for Dev01's CpuTemp1 replaced a row
\* stored before.
C1_Witness ==
    /\ ret.op = "save_data" /\ ret.exc = NoExc /\ ret.session.committed
    /\ "CpuTemp1" \in ret.value.updated
    /\ "Dev01" \in DOMAIN ret.value.data["CpuTemp1"]
    /\ "Dev01" \in db["CpuTemp1"].cols

\* C2: no table ever holds two rows with the same time.
C2_OneRowPerTime ==
    \A p \in DOMAIN db :
        \A r1, r2 \in db[p].rows : r1["time"] = r2["time"] => r1 = r2

\* A save_data that wrote a time already stored: the table holds a row
\* for that time.
C2_Witness ==
    /\ ret.op = "save_data" /\ ret.session.committed
    /\ \E p \in ret.value.updated :
          \E r \in db[p].rows : r["time"][2] = ret.value.time

\* C3: get_times_values returns the rows with begin_time <= time when only
\* begin_time is given, time <= end_time when only end_time is given, both
\* when both are given and every row when neither is, for all integer
\* values of the bounds.
C3_RangeFilterPolicy ==
    (ret.op = "get_times_values" /\ ret.exc = NoExc) =>
        LET v == ret.value
            wanted == {r \in db[v.parameter_name].rows :
                         /\ v.begin_time # PyNone =>
                                v.begin_time[2] <= r["time"][2]
                         /\ v.end_time # PyNone =>
                                r["time"][2] <= v.end_time[2]}
        IN  {v.result[i][1] : i \in DOMAIN v.result} =
                {r["time"][2] : r \in wanted}

\* C4: the pairs get_times_values and get_last_data return are in strictly
\* descending order of time, so no time occurs twice.
C4_StrictlyDescending ==
    (ret.op \in {"get_times_values", "get_last_data"} /\ ret.exc = NoExc) =>
        \A i, j \in DOMAIN ret.value.result :
            i < j => ret.value.result[i][1] > ret.value.result[j][1]

\* A reader returning pairs for several times.
C4_Witness ==
    /\ ret.op \in {"get_times_values", "get_last_data"}
    /\ ret.exc = NoExc
    /\ Len(ret.value.result) >= 2


\* The devices create_tables was told report parameter p.
Reporting(reports, p) == {d \in Devices : p \in reports[d]}

\* The row r cut down to the columns cols.
Restrict(r, cols) == [c \in cols |-> r[c]]

\* The batch save_data makes of one reading n of parameter p by device d
\* at cur_time.
OneReading(p, d, cur_time, n) ==
    p :> (d :> PyValue(p, n) @@ "time" :> PyInt(cur_time))

\* C5: a create_tables call that brings exactly one new device to a
\* parameter whose table exists adds exactly that column to the table,
\* keeps the number of rows and every row's time and values in the old
\* columns, and leaves the store such that a save_data for the new device
\* succeeds and stores its reading.
C5_AddDevice ==
    [][(ret.op = "idle" /\ ret'.op = "create_tables") =>
         \A p \in DOMAIN db :
            LET new == Reporting(ret'.value.reports, p) \ db[p].cols
            IN  Cardinality(new) = 1 =>
                  /\ ret'.exc = NoExc
                  /\ db'[p].cols = db[p].cols \cup new
                  /\ Cardinality(db'[p].rows) = Cardinality(db[p].rows)
                  /\ {Restrict(r, db[p].cols) : r \in db'[p].rows} =
                         db[p].rows
                  /\ \A d \in new, cur_time \in Times, n \in Values :
                       LET data == OneReading(p, d, cur_time, n)
                           s == save_data(db',
                                          save_data_body(db', metadata',
                                                         data, <<p>>),
                                          "ok")
                       IN  /\ s.exc = NoExc
                           /\ \E r \in s.db[p].rows :
                                /\ r["time"] = DbInteger(cur_time)
                                /\ r[d] = ToCell(DB_TYPES[p],
                                                 PyValue(p, n))]_vars

\* A create_tables that added exactly one column to a table holding rows.
C5_Witness ==
    /\ ret.op = "create_tables" /\ ret.exc = NoExc
    /\ \E p \in DOMAIN db :
          /\ Cardinality({a \in ret.value.altered : a[1] = p}) = 1
          /\ db[p].rows # {}

\* C6: when create_tables returns, the store holds, for every parameter
\* some given device reports, a table with the time column as primary key
\* and a column for every device reporting it.
C6_CreateTablesPost ==
    (ret.op = "create_tables" /\ ret.exc = NoExc) =>
        \A p \in Params :
              Reporting(ret.value.reports, p) # {} =>
                 /\ p \in DOMAIN db
                 /\ "time" \in db[p].cols
                 /\ db[p].pk = {"time"}
                 /\ Reporting(ret.value.reports, p) \subseteq db[p].cols

\* A create_tables that in one call added a column to an existing table
\* and created a table.
C6_Witness ==
    /\ ret.op = "create_tables" /\ ret.exc = NoExc
    /\ ret.value.altered # {}
    /\ ret.value.created # {}

\* C7: no step removes a table or a column of a table.
C7_SchemaMonotone ==
    [][\A p \in DOMAIN db :
          /\ p \in DOMAIN db'
          /\ db[p].cols \subseteq db'[p].cols
          /\ db[p].pk = db'[p].pk]_vars

\* A create_tables called without a device that has a column, and without
\* a reporter for a parameter that has a table: both are still there.
C7_Witness ==
    /\ ret.op = "create_tables"
    /\ \E p \in DOMAIN db :
          \E d \in db[p].cols \ {"time"} : p \notin ret.value.reports[d]
    /\ \E p \in DOMAIN db : Reporting(ret.value.reports, p) = {}


\* The reading of parameter p the device named d has in the list
\* given_devices, as a set: empty when there is none.
Readings(given_devices, d, p) ==
    {given_devices[i].params_dict[p] :
        i \in {j \in DOMAIN given_devices :
                 /\ given_devices[j].name = d
                 /\ p \in DOMAIN given_devices[j].params_dict}}

C9_RolledBackOnFailure ==
    [][(ret.op = "idle" /\ ret'.op = "save_data" /\ ret'.exc # NoExc) =>
          db' = db]_vars

\* C9: save_data's unit of work is committed when its with block is left,
\* whether the body finished or raised: unless the commit itself fails,
\* the store then holds the row of every statement that ran before the
\* exit, with the batch's values in the columns the operator knows, and
\* the body's exception, if any, propagates; when the commit fails the
\* store is as it was before the call.
C9_CommittedOnExit ==
    [][(ret.op = "idle" /\ ret'.op = "save_data") =>
          LET v == ret'.value
          IN  IF v.commit = "ok"
              THEN /\ \A i \in DOMAIN v.executed :
                        LET p == v.executed[i]
                        IN  \E r \in db'[p].rows :
                              /\ r["time"] = DbInteger(v.time)
                              /\ \A d \in (DOMAIN v.data[p] \ {"time"})
                                            \cap metadata'[p].cols :
                                    r[d] = ToCell(DB_TYPES[p], v.data[p][d])
                   /\ Len(v.executed) < Cardinality(DOMAIN v.data) =>
                        ret'.exc \in {"NoSuchTableError", "CompileError",
                                      "ProgrammingError"}
              ELSE db' = db]_vars

\* A save_data that raised NoSuchTableError for a later parameter after
\* writing a row for an earlier one, and was committed.
C9_Witness ==
    /\ ret.op = "save_data"
    /\ ret.exc = "NoSuchTableError"
    /\ ret.session.committed
    /\ Len(ret.value.executed) >= 1
    /\ \E r \in db[ret.value.executed[1]].rows :
          r["time"] = DbInteger(ret.value.time)

\* C10 as stated: a session that was entered is released on every exit
\* path, and when its commit failed it was rolled back before the release.
C10_SessionReleased ==
    ret.session.entered =>
        /\ ret.session.closed
        /\ ~ret.session.committed => ret.session.rolledback

\* C11: get_times_values, get_last_data and get_time_interval called for
\* a parameter that has no table in the store raise NoSuchTableError,
\* before a session is opened, and return nothing.
C11_NoTableRaises ==
    (ret.op \in {"get_times_values", "get_last_data", "get_time_interval"}) =>
        LET name == IF ret.op = "get_time_interval"
                    THEN ret.value.table_name
                    ELSE ret.value.parameter_name
        IN  name \notin DOMAIN db =>
               /\ ret.exc = "NoSuchTableError"
               /\ ret.value.result = <<>>
               /\ ~ret.session.entered

\* get_time_interval raising NoSuchTableError for a parameter without a
\* table while another parameter has one.
C11_Witness ==
    /\ ret.op = "get_time_interval"
    /\ ret.exc = "NoSuchTableError"
    /\ ret.value.table_name \notin DOMAIN db
    /\ DOMAIN db # {}

\* C12: a get_size call made no later than size_update_time after the
\* cache was filled issues no query and returns the cached value, whatever
\* the database has become; a later call, and the first call of a new
\* operator, issues the query and, unless it raises, returns the size found
\* and stores it and the time in the cache.
C12_SizeCache ==
    [][(ret.op = "idle" /\ ret'.op = "get_size") =>
          LET v == ret'.value
          IN  /\ cache = NoCache => v.queried
              /\ IF clock <= cache.last_get_size_time + size_update_time
                 THEN /\ ~v.queried
                      /\ ret'.exc = NoExc
                      /\ v.result = cache.cached_db_size
                      /\ cache' = cache
                 ELSE /\ v.queried
                      /\ IF ret'.exc = NoExc
                         THEN /\ v.result = db_size_mb(db)
                              /\ cache' = [last_get_size_time |-> clock',
                                           cached_db_size |-> v.result]
                         ELSE cache' = cache]_vars

\* A get_size call answered from the cache, exactly size_update_time
\* after the cache was filled, although the database has grown since.
C12_Witness ==
    /\ ret.op = "get_size"
    /\ ~ret.value.queried
    /\ clock = cache.last_get_size_time + size_update_time
    /\ ret.value.result # db_size_mb(db)

\* C13: for a parameter table that holds at least one row,
\* get_time_interval returns (smallest time, largest time) over all rows of
\* the table, whichever device columns hold values; it raises only when
\* the commit of its session does.
C13_TimeInterval ==
    (/\ ret.op = "get_time_interval"
     /\ ret.value.table_name \in DOMAIN db) =>
        LET times == {r["time"][2] : r \in db[ret.value.table_name].rows}
        IN  times # {} =>
               /\ ret.exc \in {NoExc, "OperationalError"}
               /\ ret.session.committed => ret.exc = NoExc
               /\ ret.exc = NoExc =>
                     /\ Len(ret.value.result) = 2
                     /\ ret.value.result[1] \in times
                     /\ ret.value.result[2] \in times
                     /\ \A t \in times : /\ ret.value.result[1] <= t
                                         /\ t <= ret.value.result[2]

\* get_time_interval returning two different times for a table of which
\* some row has no value for some device.
C13_Witness ==
    /\ ret.op = "get_time_interval" /\ ret.exc = NoExc
    /\ ret.value.result[1] < ret.value.result[2]
    /\ \E r \in db[ret.value.table_name].rows :
          \E c \in DOMAIN r : r[c] = DbNull

\* C14: get_last_data(device, parameter, limit) returns min(limit, number
\* of rows of the table) pairs, most recent first; they are the rows with
\* the largest times, each with the device's value at that time.
C14_LastData ==
    (ret.op = "get_last_data" /\ ret.exc = NoExc) =>
        LET rows == db[ret.value.parameter_name].rows
            res == ret.value.result
            got == {res[i][1] : i \in DOMAIN res}
        IN  /\ Len(res) = IF ret.value.limit < Cardinality(rows)
                          THEN ret.value.limit ELSE Cardinality(rows)
            /\ \A i, j \in DOMAIN res : i < j => res[i][1] > res[j][1]
            /\ \A i \in DOMAIN res :
                  \E r \in rows :
                     /\ r["time"] = DbInteger(res[i][1])
                     /\ res[i][2][2] = r[ret.value.device_name][2]
                     /\ res[i][2] = PyNone <=>
                            r[ret.value.device_name] = DbNull
            /\ \A r \in rows :
                  r["time"][2] \notin got =>
                     \A t \in got : t > r["time"][2]

\* get_last_data with limit 1 for a table of two rows: the later one is
\* returned.
C14_Witness ==
    /\ ret.op = "get_last_data" /\ ret.exc = NoExc
    /\ ret.value.limit = 1
    /\ Cardinality(db[ret.value.parameter_name].rows) = 2
    /\ Len(ret.value.result) = 1

\* C15: a value of 0 is dropped neither on the write nor on the read
\* path.  Whenever the operator is idle, a save_data at any time t for a
\* device whose reading of a parameter is 0 (collected at t), the device
\* having a column in the parameter's table, succeeds, and get_times_values
\* for that device and parameter then contains the pair [t, 0.0] (0 for an
\* integer column).
C15_ZeroKept ==
    ret.op = "idle" =>
        \A p \in DOMAIN db, t \in Times, do_time_check \in BOOLEAN :
            \A d \in db[p].cols \ {"time"} :
                LET data == get_data_to_save(
                                t,
                                <<[name |-> d,
                                   params_dict |->
                                       p :> [value |-> PyValue(p, 0),
                                             last_collected |-> t]]>>,
                                do_time_check)
                    s == save_data(db,
                                   save_data_body(db, metadata, data,
                                                  IF p \in DOMAIN data
                                                  THEN <<p>> ELSE <<>>),
                                   "ok")
                    res == get_times_values_body(s.db, s.md, d, p,
                                                 PyNone, PyNone)
                IN  /\ s.exc = NoExc
                    /\ res.exc = NoExc
                    /\ \E i \in DOMAIN res.value :
                          res.value[i] =
                              <<t, IF DB_TYPES[p] = "Numeric"
                                   THEN PyFloat(0) ELSE PyInt(0)>>

\* get_times_values returning the pair [t, 0.0] after a save_data of the
\* value 0.0 at t.
C15_Witness ==
    /\ ret.op = "get_times_values" /\ ret.exc = NoExc
    /\ \E i \in DOMAIN ret.value.result :
          ret.value.result[i][2] = PyFloat(0)

\* C16: a create_tables call on an empty database leaves in the registry
\* (metadata.tables) exactly the parameters that at least one of the given
\* devices reports, and the store holds a table for exactly those.
C16_TablesOfReported ==
    [][(ret.op = "idle" /\ db = EmptyMap /\ ret'.op = "create_tables") =>
          LET reported == {p \in Params :
                             Reporting(ret'.value.reports, p) # {}}
          IN  /\ ret'.exc = NoExc
              /\ DOMAIN metadata' = reported
              /\ DOMAIN db' = reported]_vars

\* A create_tables on an empty database for devices that report one of
\* the two parameters: the registry holds that table only.
C16_Witness ==
    /\ ret.op = "create_tables" /\ ret.exc = NoExc
    /\ ret.value.created = DOMAIN db
    /\ DOMAIN metadata = {"CpuTemp1"}
    /\ \A d \in Devices : "online" \notin ret.value.reports[d]

\* C17: constructing a SessionManager for a database that does not exist
\* raises ConnectionError and yields no object; for a database that exists
\* it yields an object with an engine and a session factory for that
\* database.
C17_ConnectionError ==
    [][(ret.op = "idle" /\ ret'.op = "SessionManager") =>
          LET v == ret'.value
          IN  IF v.db_name \in server
              THEN /\ ret'.exc = NoExc
                   /\ \E m \in managers' :
                         /\ v.manager = {m}
                         /\ m.name = v.db_name
                         /\ m.engine = get_url(v.db_name)
                         /\ m.sessionmaker = "SafeSession"
              ELSE /\ ret'.exc = "ConnectionError"
                   /\ v.manager = {}
                   /\ managers' = managers]_vars

\* A SessionManager refused for a database that does not exist, while
\* the caller holds a manager of another database.
C17_Witness ==
    /\ ret.op = "SessionManager"
    /\ ret.exc = "ConnectionError"
    /\ ret.value.db_name \notin server
    /\ \E m \in managers : m.name \in server

\* C18: create_db(name) returns normally whether or not the database
\* exists, and the database exists afterwards, nothing else changing; after
\* delete() the database of the manager does not exist.
C18_Lifecycle ==
    [][/\ (ret.op = "idle" /\ ret'.op = "create_db") =>
             /\ ret'.exc = NoExc
             /\ server' = server \cup {ret'.value.db_name}
       /\ (ret.op = "idle" /\ ret'.op = "delete") =>
             /\ ret'.value.db_name \notin server'
             /\ server' = server \ {ret'.value.db_name}]_vars

\* A create_db for a database that existed already, which a delete()
\* had removed before.
C18_Witness ==
    /\ ret.op = "create_db" /\ ret.exc = NoExc
    /\ ret.value.existed
    /\ \E m \in managers : m.name \notin server

\* C19: whenever the operator is idle and the last-online table has a
\* column for every device of general_devices, save_devices_online_status
\* succeeds, and after it a load_devices_online_status -- by the same
\* operator or by a new one, whatever the is_online flags have been changed
\* to in between -- sets the is_online of every device to a value equal to
\* the one it had at the save.
C19_OnlineRoundTrip ==
    (/\ ret.op = "idle"
     /\ LAST_ONLINE_TABLE \in DOMAIN db
     /\ DOMAIN general_devices \subseteq db[LAST_ONLINE_TABLE].cols) =>
        LET s == save_devices_online_status(db, metadata, general_devices,
                                            "ok")
        IN  /\ s.exc = NoExc
            /\ \A changed \in [DOMAIN general_devices ->
                                   {PyBool(0), PyBool(1)}],
                  fresh \in BOOLEAN, order \in Orders(GeneralDevices),
                  row \in FirstRows(s.db, LAST_ONLINE_TABLE) :
                  LET l == load_devices_online_status(
                               s.db, IF fresh THEN {} ELSE typed, changed,
                               order, 1, row, "ok",
                               Table_autoload(s.db,
                                              IF fresh THEN EmptyMap
                                              ELSE s.md,
                                              LAST_ONLINE_TABLE))
                  IN  /\ l.exc = NoExc
                      /\ \A d \in DOMAIN general_devices :
                            /\ (l.general_devices[d] = PyNone) <=>
                                   (general_devices[d] = PyNone)
                            /\ l.general_devices[d][2] =
                                   general_devices[d][2]

\* A load_devices_online_status that put a saved False back on a device
\* whose is_online had been set to True after the save.
C19_Witness ==
    /\ ret.op = "load_devices_online_status" /\ ret.exc = NoExc
    /\ \E d \in DOMAIN general_devices :
          /\ ret.value.before[d] = PyBool(1)
          /\ general_devices[d] = PyBool(0)
    /\ \E d \in DOMAIN general_devices : general_devices[d] = PyBool(1)

\* C20: a create_tables of the system operator that went through leaves
\* 'on' as the administrative status of every device given; once the
\* table holds its row, a set_admin_status(d, status) that went through
\* makes status the administrative status of d and leaves that of every
\* other device as it was; no other call changes an administrative status,
\* and get_admin_status returns it.
C20_AdminStatus ==
    [][LET v == ret'.value
           done == /\ ret.op = "idle" /\ ret'.exc = NoExc
                   /\ ret'.session.committed
           status(dbv, md, e) ==
               {ReadReturn(dbv,
                           get_admin_status(
                               dbv, e, row,
                               ResolveColumn(dbv, md, e,
                                             ADMIN_STATUS_TABLE)),
                           "ok").value.result :
                  row \in FirstRows(dbv, ADMIN_STATUS_TABLE)}
       IN  /\ (done /\ ret'.op = "create_tables") =>
                 \A d \in v.devices :
                    status(db', metadata', d) = {PyStr("on")}
           /\ (done /\ ret'.op = "set_admin_status"
                   /\ db[ADMIN_STATUS_TABLE].rows # {}) =>
                 /\ status(db', metadata', v.device_name) =
                        {PyStr(v.status)}
                 /\ \A e \in GeneralDevices \ {v.device_name} :
                       status(db', metadata', e) = status(db, metadata, e)
           /\ (ret'.op # "create_tables" /\ ~done) =>
                 \A e \in GeneralDevices :
                    status(db', metadata', e) = status(db, metadata, e)
           /\ (ret.op = "idle" /\ ret'.op = "get_admin_status"
                   /\ ret'.exc = NoExc) =>
                 v.result \in status(db, metadata, v.device_name)]_vars

\* get_admin_status returning 'off' for a device that was set to it
\* while another device is 'on'.
C20_Witness ==
    /\ ret.op = "get_admin_status" /\ ret.exc = NoExc
    /\ ret.value.result = PyStr("off")
    /\ \E r \in db[ADMIN_STATUS_TABLE].rows :
          \E e \in DOMAIN r : r[e] = DbText("on")

\* C21: the last-online table and the administrative-status table each
\* hold exactly one row from the return of SystemDataOperator.create_tables
\* onward: a create_tables that went through leaves one row in each, and
\* no later call (save_devices_online_status, set_admin_status, a repeated
\* create_tables, a load or a get) changes the number of rows of either.
C21_OneRowEach ==
    [][LET one(dbv) ==
               \A t \in {LAST_ONLINE_TABLE, ADMIN_STATUS_TABLE} :
                  t \in DOMAIN dbv /\ Cardinality(dbv[t].rows) = 1
       IN  /\ (/\ ret.op = "idle" /\ ret'.op = "create_tables"
               /\ ret'.exc = NoExc /\ ret'.session.committed) => one(db')
           /\ one(db) => one(db')]_vars

\* C22: the frame of save_data(t, devices).  Whatever way the call ends,
\* the store has the tables, columns and primary keys it had; a table of
\* a parameter that is not in the batch is as it was; in a table of the
\* batch every row with another time is as it was and no such row is
\* added; and a row that was stored for time t keeps its time and the
\* value of every column whose device is not in the batch.
C22_SaveDataFrame ==
    [][(ret.op = "idle" /\ ret'.op = "save_data") =>
          LET v == ret'.value
              others(rows) == {r \in rows : r["time"] # DbInteger(v.time)}
          IN  /\ DOMAIN db' = DOMAIN db
              /\ \A p \in DOMAIN db :
                    /\ db'[p].cols = db[p].cols
                    /\ db'[p].pk = db[p].pk
                    /\ p \notin DOMAIN v.data => db'[p] = db[p]
                    /\ others(db'[p].rows) = others(db[p].rows)
                    /\ \A r \in db[p].rows \ others(db[p].rows) :
                          \E q \in db'[p].rows :
                             /\ q["time"] = r["time"]
                             /\ \A c \in db[p].cols :
                                   (p \notin DOMAIN v.data
                                    \/ c \notin DOMAIN v.data[p]) =>
                                       q[c] = r[c]]_vars

\* A save_data for one device that took the update path on a row holding
\* a value of the other device, which is still there.
C22_Witness ==
    /\ ret.op = "save_data" /\ ret.exc = NoExc /\ ret.session.committed
    /\ \E p \in ret.value.updated :
          \E r \in db[p].rows, d \in db[p].cols \ DOMAIN ret.value.data[p] :
             /\ r["time"] = DbInteger(ret.value.time)
             /\ r[d] # DbNull

\* C23: when two threads run save_data for the same parameter and the
\* same time, in whatever order their statements and commits interleave,
\* neither call ends with the IntegrityError of the store; and once both
\* have returned, if the statement of at least one was committed the table
\* holds exactly one row for that time, in which every column written by
\* a committed call has the value one of the committed calls wrote there.
\* (A call whose statement was not committed has written nothing: its
\* commit failed, or the store rolled it back as the victim of a deadlock.)
C23_ConcurrentUpsert ==
    /\ \A c \in Threads : callers[c].exc # "IntegrityError"
    /\ \A a, b \in Threads :
          (/\ a # b
           /\ callers[a].pc = "done" /\ callers[b].pc = "done"
           /\ callers[a].args.table_name = callers[b].args.table_name
           /\ callers[a].args.cur_time = callers[b].args.cur_time) =>
              LET p == callers[a].args.table_name
                  committed == {c \in {a, b} :
                                  /\ callers[c].session.committed
                                  /\ callers[c].local.pending # "none"}
                  dict(c) == callers[c].args.column_values_dict
                  rows == {r \in db[p].rows :
                             r["time"] = DbInteger(callers[a].args.cur_time)}
              IN  committed # {} =>
                    /\ Cardinality(rows) = 1
                    /\ \A r \in rows, c \in committed :
                          \A d \in (DOMAIN dict(c) \ {"time"}) \cap db[p].cols :
                             r[d] \in {ToCell(DB_TYPES[p], dict(e)[d]) :
                                         e \in {e \in committed :
                                                  d \in DOMAIN dict(e)}}

\* Both threads have saved for the same time at once: one inserted the
\* row, the other met it and updated it, and both were committed.
C23_Witness ==
    /\ \A c \in Threads :
          /\ callers[c].pc = "done"
          /\ callers[c].session.committed
          /\ callers[c].exc = NoExc
          /\ callers[c].args.cur_time = 0
    /\ \E c \in Threads : callers[c].args.overlaps
    /\ \E c \in Threads : callers[c].local.pending = "insert"
    /\ \E c \in Threads : callers[c].local.pending = "update"
    /\ callers["A"].args.column_values_dict #
           callers["B"].args.column_values_dict

\* C24: with two threads in get_size on one operator, a call that returns
\* never returns the None the cache starts with, and whenever the cache
\* counts as fresh it holds a size, the one computed by the refresh that
\* set its timestamp.
C24_SizeRace ==
    /\ \A c \in Threads :
          (callers[c].pc = "done" /\ callers[c].exc = NoExc) =>
              callers[c].local.result # PyNone
    /\ ~size_is_stale(clock, cache) =>
          /\ cache.cached_db_size # PyNone
          /\ \A c \in Threads :
                callers[c].pc = "store" =>
                    cache.cached_db_size = callers[c].local.size

\* C25: alter_table on a table the store does not have raises nothing,
\* issues no ALTER TABLE and creates no table; on a table the store has it
\* issues ADD COLUMN for exactly the requested columns the table lacks,
\* so it never asks the store to add a column that is there (which the
\* store refuses with OperationalError).
C25_AlterOnlyMissing ==
    [][(ret.op = "idle" /\ ret'.op = "alter_table") =>
          LET v == ret'.value
          IN  IF v.table_name \notin DOMAIN db
              THEN ret'.exc = NoExc /\ v.added = {} /\ db' = db
              ELSE /\ ret'.exc = NoExc
                   /\ v.added = Range(v.column_names)
                                    \ db[v.table_name].cols
                   /\ db'[v.table_name].cols =
                          db[v.table_name].cols \cup Range(v.column_names)]_vars

\* C26: create_tables is idempotent.  A create_tables(devices) that
\* returned has given the store a table for every parameter reported and
\* in it a column for every device reporting it; and from any state in
\* which the store has these for a device set -- the state the first call
\* left, or any state saves have led to since -- a create_tables for that
\* device set raises nothing, creates no table, adds no column and leaves
\* the store, rows included, as it is.
C26_CreateTablesIdempotent ==
    LET covered(reports) ==
            \A d \in Devices : \A p \in reports[d] :
                p \in DOMAIN db /\ d \in db[p].cols
    IN  /\ (ret.op = "create_tables" /\ ret.exc = NoExc) =>
               covered(ret.value.reports)
        /\ \A reports \in [Devices -> SUBSET Params] :
              ((\A d \in Devices : reports[d] \subseteq Reportable[d])
               /\ covered(reports)) =>
                  \A params \in Orders(UNION {reports[d] : d \in Devices}) :
                     LET r == create_tables(db, metadata,
                                            DeviceList(DeviceDict(reports)),
                                            params)
                     IN  /\ r.exc = NoExc
                         /\ r.db = db
                         /\ r.value.created = {}
                         /\ r.value.altered = {}

\* A second create_tables for two devices, after a save: it has created
\* and altered nothing, and the row saved is there.
C26_Witness ==
    /\ ret.op = "create_tables" /\ ret.exc = NoExc
    /\ ret.value.created = {} /\ ret.value.altered = {}
    /\ ret.value.reports["Dev01"] # {} /\ ret.value.reports["Dev02"] # {}
    /\ \E p \in DOMAIN db : db[p].rows # {}

\* C27: get_time_interval returns a pair only for a table that holds a
\* row.  Called for a table the store has without any row, it raises --
\* IndexError on row_list[0], unless the commit of its session has failed
\* before -- and whatever it is called for, it leaves the store as it is.
C27_EmptyTableRaises ==
    [][(ret.op = "idle" /\ ret'.op = "get_time_interval") =>
          LET t == ret'.value.table_name
          IN  /\ db' = db
              /\ ret'.exc = NoExc => (t \in DOMAIN db /\ db[t].rows # {})
              /\ (t \in DOMAIN db /\ db[t].rows = {}) =>
                    /\ ret'.exc \in {"IndexError", "OperationalError"}
                    /\ ret'.exc = "OperationalError" =>
                          ret'.session.exc = "OperationalError"]_vars

\* get_time_interval has raised IndexError for a table created by
\* create_tables in which nothing has been saved.
C27_Witness ==
    /\ ret.op = "get_time_interval" /\ ret.exc = "IndexError"
    /\ ret.value.table_name \in DOMAIN db
    /\ db[ret.value.table_name].rows = {}

\* C28: after any sequence of add_alert, update_alert and kill_alert
\* calls on the alert_statistics, under each of its keys the counter
\* (index 0) equals the length of the list (index 1).
C28_StatisticsConsistent ==
    \A k \in StatKeys :
        alert_statistics[k][1] = Len(alert_statistics[k][2])

====
